---- MODULE Spec2Model ----
(***************************************************************************)
(* Model of the Pipecat sync service (murali-farmvaidya/mongo_sync).       *)
(*                                                                         *)
(* Part 1: the realtime sync cycle of scripts/sync-realtime.js, PostgreSQL *)
(*         variant (syncAgents, syncSessions, syncConversations).          *)
(* Part 2: the Session Context Selector on its own (SpecSelector).         *)
(* Part 3: the turn assembler and the message sanitizer (SpecTurns).       *)
(* Part 4: retryWithBackoff, SyncJob.run and the polling loop (SpecRetry,  *)
(*         SpecJob, SpecLoop), and the cycle under faults and crashes.     *)
(* Part 5: cleanUserMessage on strings (SpecSanitizer) and the character   *)
(*         scanner of parseContextLog (SpecParser).                        *)
(* Part 6: syncLogsOnly's batches (SpecFanOut), the log service            *)
(*         (SpecLogSync) and the signal handlers (SpecShutdown).           *)
(*                                                                         *)
(* Timestamps are integers; SYNC_START_DATE is the sync horizon.  A log    *)
(* message (a string in the code) is a record of what the code reads from  *)
(* it: whether it contains 'context [', whether it contains 'universal     *)
(* context', the first UUID in it (or none) and the message list its       *)
(* bracketed array holds.  Message contents are sequences of tokens.       *)
(* Wall-clock fields (last_synced, turn.timestamp, first_message_at) are   *)
(* not part of the state.                                                  *)
(***************************************************************************)
EXTENDS Integers, Sequences, FiniteSets, TLC

\* ------------------------------------------------------------------ bounds
\* Longest upstream log list of a session given to the streaming log sync
\* (SpecLogStream).
MaxStreamLogs == 3
\* Longest list of fetched sessions or agents given to the upsert loop
\* (SpecUpsert).
MaxItems == 3
\* Largest number of signals sent to the process (SpecShutdown).
MaxSignals == 3
\* Longest upstream log list of a session given to the log service
\* (SpecLogSync).
MaxSessionLogs == 2
\* Largest number of syncLogsForSession runs for the session.
MaxRuns == 2
\* Logs per bulk write of the log service (SYNC_BATCH_SIZE, 100 when unset).
SYNC_BATCH_SIZE == 2
\* Timestamp ticks per second: log ids keep the second of the timestamp.
TicksPerSecond == 2
\* Largest number of stored sessions given to syncLogsOnly (SpecFanOut).
MaxSessions == 11
\* Largest timestamp of the selector and assembler inputs (0..MaxTime).
MaxTime == 3
\* Longest upstream log list of an agent in the general cycle (Spec).
MaxLogs == 2
\* Longest upstream log list of an agent in the fetch family (SpecFetch).
MaxFetchLogs == 6
\* Longest candidate sequence fed to the selector (SpecSelector).
MaxCandidates == 3
\* Longest message list fed to the turn assembler (SpecTurns).
MaxMessages == 3
\* Longest block text between the marker and the fenced block, and longest
\* marker-free message, fed to the sanitizer (SpecSanitizer).
MaxBlock == 2
\* Longest literal array fed to the parser, in entries (SpecParser).
MaxEntries == 2
\* Longest text after a content marker fed to the parser, in characters.
MaxTail == 3
\* Longest text of role and content markers fed to the parser, in markers.
MaxMarkers == 3
\* Page size of the log listing; the code uses 100 (sync-realtime.js:294),
\* scaled down here so that several pages fit the bounds.
limit == 2
\* Largest maxRetries handed to retryWithBackoff (SpecRetry).
MaxAttempts == 3
\* Most process terminations in a run of the service (SpecCrash).
MaxCrashes == 1
\* Calls of SyncJob.run() on one instance (SpecJob).
MaxCalls == 2
\* Cycles the continuous loop starts (SpecLoop).
MaxCycles == 3

\* ------------------------------------------------------- program constants
\* const SYNC_START_DATE = new Date('2026-01-01T00:00:00Z'), as an integer.
SYNC_START_DATE == 1
\* retryWithBackoff(operation, operationName, maxRetries = 3, baseDelay = 1000)
baseDelay == 1000
\* error.code === 11000, the duplicate key error of the database.
DuplicateKey == 11000
\* const batchSize = 10 of syncLogsOnly.
batchSize == 10

None == "none"

Agents == {"a1", "a2"}
SessionIds == {"s1", "s2"}
Times == 0 .. MaxTime

Max(S) == CHOOSE x \in S : \A y \in S : y <= x
Min(S) == CHOOSE x \in S : \A y \in S : x <= y

\* ------------------------------------------------- message sanitizer (4.2)
\* Tokens of a message content:
\*   "MARK" the literal [KNOWLEDGE BASE CONTEXT]     "F"  a fence ```
\*   "J"    the text json                            "E"  an escaped fence \`\`\`
\*   "NL"   a newline     "SP" a space               "D"  the text ---
\*   "Q"    any other visible text
Tokens == {"MARK", "F", "J", "E", "NL", "SP", "D", "Q"}
Whitespace == {"NL", "SP"}

Contains(s, t) == \E i \in 1 .. Len(s) : s[i] = t

\* String.prototype.trim
RECURSIVE TrimLeft(_)
TrimLeft(s) ==
    IF s # <<>> /\ Head(s) \in Whitespace THEN TrimLeft(Tail(s)) ELSE s

RECURSIVE TrimRight(_)
TrimRight(s) ==
    IF s # <<>> /\ s[Len(s)] \in Whitespace
    THEN TrimRight(SubSeq(s, 1, Len(s) - 1)) ELSE s

Trim(s) == TrimRight(TrimLeft(s))

\* msg.replace(/MARK[\s\S]*?<fence>json[\s\S]*?<fence>\s*/, ''): the leftmost
\* match starts at the first marker, runs lazily to the first <fence>json
\* after it, lazily to the first <fence> after that, then over whitespace.
ReplaceBlock(msg, fence) ==
    LET marks == {i \in 1 .. Len(msg) : msg[i] = "MARK"}
    IN  IF marks = {} THEN msg
        ELSE
          LET i == Min(marks)
              opens == {j \in i + 1 .. Len(msg) - 1 :
                           msg[j] = fence /\ msg[j + 1] = "J"}
          IN  IF opens = {} THEN msg
              ELSE
                LET j == Min(opens)
                    closes == {k \in j + 2 .. Len(msg) : msg[k] = fence}
                IN  IF closes = {} THEN msg
                    ELSE
                      LET k == Min(closes)
                          rest == SubSeq(msg, k + 1, Len(msg))
                      IN  SubSeq(msg, 1, i - 1) \o TrimLeft(rest)

\* cleaned.split('\n')
RECURSIVE SplitLines(_)
SplitLines(s) ==
    LET nls == {i \in 1 .. Len(s) : s[i] = "NL"}
    IN  IF nls = {} THEN <<s>>
        ELSE <<SubSeq(s, 1, Min(nls) - 1)>>
                 \o SplitLines(SubSeq(s, Min(nls) + 1, Len(s)))

\* The backward scan for the last line that is not empty, not a fence line
\* and not a separator line; <<FALSE, _>> when there is none.
LastPlainLine(parts) ==
    LET ok == {i \in 1 .. Len(parts) :
                  /\ Trim(parts[i]) # <<>>
                  /\ ~Contains(parts[i], "F")
                  /\ ~Contains(parts[i], "D")}
    IN  IF ok = {} THEN <<FALSE, <<>>>> ELSE <<TRUE, Trim(parts[Max(ok)])>>

cleanUserMessage(msg) ==
    IF msg = <<>> THEN msg
    ELSE IF Contains(msg, "MARK")
    THEN LET c1 == ReplaceBlock(msg, "F")
             c2 == IF Contains(c1, "MARK") THEN ReplaceBlock(c1, "E") ELSE c1
             last == LastPlainLine(SplitLines(c2))
         IN  IF Contains(c2, "MARK") /\ last[1] THEN last[2] ELSE Trim(c2)
    ELSE msg

\* --------------------------------------------------- turn assembler (4.3)
\* assistant_message: null
Null == <<"null">>

Roles == {"user", "assistant"}

\* The emission test without the trim.
EmitsTurnUntrimmed(userMsg) == userMsg # <<>>

\* The emission test of line 233: user_message && user_message.trim().length > 0
EmitsTurn(userMsg) == Trim(userMsg) # <<>>

\* The assembler without the look at the next message.
AssembleStepNeverPairs(messages, st) ==
    IF messages[st.i].role = "user"
    THEN LET tid == st.turnId + 1
             userMsg == cleanUserMessage(messages[st.i].content)
             turn == [turn_id |-> tid, user_message |-> userMsg,
                      assistant_message |-> <<"null">>]
         IN  [i |-> st.i + 1, turnId |-> tid,
              turns |-> IF Trim(userMsg) # <<>>
                        THEN Append(st.turns, turn) ELSE st.turns]
    ELSE [st EXCEPT !.i = @ + 1]

\* Variant: the reply of a dropped user message is not consumed with it, and
\* an assistant message met on its own goes to the last turn without one.
AssembleStepReplyOutlivesDrop(messages, st) ==
    IF messages[st.i].role = "user"
    THEN LET tid == st.turnId + 1
             userMsg == cleanUserMessage(messages[st.i].content)
             paired == /\ st.i + 1 <= Len(messages)
                       /\ messages[st.i + 1].role = "assistant"
                       /\ Trim(userMsg) # <<>>
             turn == [turn_id |-> tid,
                      user_message |-> userMsg,
                      assistant_message |->
                          IF paired THEN messages[st.i + 1].content
                          ELSE <<"null">>]
         IN  [i |-> st.i + (IF paired THEN 2 ELSE 1),
              turnId |-> tid,
              turns |-> IF Trim(userMsg) # <<>>
                        THEN Append(st.turns, turn) ELSE st.turns]
    ELSE LET n == Len(st.turns)
         IN  IF n > 0 /\ st.turns[n].assistant_message = <<"null">>
             THEN [st EXCEPT !.i = @ + 1,
                             !.turns[n].assistant_message =
                                 messages[st.i].content]
             ELSE [st EXCEPT !.i = @ + 1]

\* One iteration of the for loop of parseContextLog (lines 216-237), on the
\* loop state st = [i, turnId, turns]; i is 1-based here.
AssembleStep(messages, st) ==
    IF messages[st.i].role = "user"
    THEN LET tid == st.turnId + 1
             userMsg == cleanUserMessage(messages[st.i].content)
             paired == /\ st.i + 1 <= Len(messages)
                       /\ messages[st.i + 1].role = "assistant"
             turn == [turn_id |-> tid,
                      user_message |-> userMsg,
                      assistant_message |->
                          IF paired THEN messages[st.i + 1].content ELSE Null]
         IN  [i |-> st.i + (IF paired THEN 2 ELSE 1),
              turnId |-> tid,
              turns |-> IF EmitsTurn(userMsg)
                        THEN Append(st.turns, turn) ELSE st.turns]
    ELSE [st EXCEPT !.i = @ + 1]

RECURSIVE AssembleFrom(_, _)
AssembleFrom(messages, st) ==
    IF st.i > Len(messages) THEN st.turns
    ELSE AssembleFrom(messages, AssembleStep(messages, st))

\* The turn list parseContextLog returns for an extracted message list.
AssembleTurns(messages) ==
    AssembleFrom(messages, [i |-> 1, turnId |-> 0, turns |-> <<>>])

\* parseContextLog(logMessage): no bracketed array, no turns (line 148).
parseContextLog(msg) ==
    IF ~msg.isContext THEN <<>> ELSE AssembleTurns(msg.messages)

\* extractSessionId(logMessage): the first UUID of the text, or null.
extractSessionId(msg) == msg.sessionId

\* ---------------------------------------------- session context selector
\* A JS Map: the keys in insertion order and the value of each key.
EmptyMap == [order |-> <<>>, at |-> <<>>]
MapHas(m, k) == k \in DOMAIN m.at
MapGet(m, k) == m.at[k]
MapSet(m, k, v) ==
    IF MapHas(m, k) THEN [m EXCEPT !.at = [@ EXCEPT ![k] = v]]
    ELSE [order |-> Append(m.order, k), at |-> (k :> v) @@ m.at]

\* Variant: the later snapshot wins whatever its kind.
ShouldReplaceLatestWins(current, isUniversal, logTime) ==
    logTime > current.time

\* Variant: a snapshot of the same kind replaces on an equal timestamp too.
ShouldReplaceOnTie(current, isUniversal, logTime) ==
    \/ isUniversal /\ ~current.isUniversal
    \/ isUniversal = current.isUniversal /\ logTime >= current.time

\* Lines 324-328: does the candidate replace the current entry?
ShouldReplace(current, isUniversal, logTime) ==
    \/ isUniversal /\ ~current.isUniversal
    \/ isUniversal = current.isUniversal /\ logTime > current.time

\* Lines 318-329: one candidate against the map.
SelectorStep(ctx, sessionId, msg, logTime) ==
    LET isUniversal == msg.isUniversal
        cand == [log |-> msg, time |-> logTime, isUniversal |-> isUniversal]
    IN  IF ~MapHas(ctx, sessionId) THEN MapSet(ctx, sessionId, cand)
        ELSE IF ShouldReplace(MapGet(ctx, sessionId), isUniversal, logTime)
        THEN MapSet(ctx, sessionId, cand)
        ELSE ctx

\* --------------------------------------------- incremental fetch controller
\* Variant: an entry at the horizon counts as old.
IsOldInclusive(logTime) == logTime <= SYNC_START_DATE

\* Line 307: logTime < SYNC_START_DATE
IsOld(logTime) == logTime < SYNC_START_DATE

\* Variant: the age test comes after the snapshot tests, so that only a
\* snapshot with a session id can stop the scan.
ScanEntrySnapshotsOnly(st, log) ==
    LET seen == [st EXCEPT !.examined = Append(@, log)]
    IN  IF ~log.log.isContext THEN seen
        ELSE IF log.log.sessionId = None THEN seen
        ELSE IF log.timestamp < SYNC_START_DATE
        THEN [seen EXCEPT !.stop = TRUE]
        ELSE [seen EXCEPT
                 !.ctx = SelectorStep(@, log.log.sessionId,
                                      log.log, log.timestamp),
                 !.offered = @ \cup {log}]

\* Variant: the early stop throws away what was selected so far.
ScanEntryStopDiscards(st, log) ==
    LET seen == [st EXCEPT !.examined = Append(@, log)]
    IN  IF IsOld(log.timestamp)
        THEN [seen EXCEPT !.stop = TRUE, !.ctx = EmptyMap]
        ELSE IF ~log.log.isContext THEN seen
        ELSE IF extractSessionId(log.log) = None THEN seen
        ELSE [seen EXCEPT
                 !.ctx = SelectorStep(@, extractSessionId(log.log),
                                      log.log, log.timestamp),
                 !.offered = @ \cup {log}]

\* Lines 305-329: the body of the for loop over one page, on the scan state
\* st = [ctx, stop, examined, offered] (examined and offered are history).
ScanEntry(st, log) ==
    LET seen == [st EXCEPT !.examined = Append(@, log)]
    IN  IF IsOld(log.timestamp) THEN [seen EXCEPT !.stop = TRUE]
        ELSE IF ~log.log.isContext THEN seen
        ELSE IF extractSessionId(log.log) = None THEN seen
        ELSE [seen EXCEPT
                 !.ctx = SelectorStep(@, extractSessionId(log.log),
                                      log.log, log.timestamp),
                 !.offered = @ \cup {log}]

\* Lines 304-330: the for loop, left by the break at the first old entry.
RECURSIVE ScanPage(_, _, _)
ScanPage(st, logs, k) ==
    IF k > Len(logs) \/ st.stop THEN st
    ELSE ScanPage(ScanEntry(st, logs[k]), logs, k + 1)

\* Variant: hasMore only when more than a page came back.
HasMoreStrict(logs, lim) == Len(logs) > lim

\* pipecat.js line 142: hasMore: logs.length === limit
HasMore(logs, lim) == Len(logs) = lim

\* PipecatClient.getAgentLogs (pipecat.js 109-149): the upstream returns the
\* entries from offset (page - 1) * limit on, at most limit of them.
getAgentLogs(all, pg, lim) ==
    LET offset == IF pg > 1 THEN (pg - 1) * lim ELSE 0
        logs == SubSeq(all, offset + 1, Min({Len(all), offset + lim}))
    IN  [data |-> logs, page |-> pg, hasMore |-> HasMore(logs, lim)]

\* Variant: the next request follows page++ at once.
AfterPageNoDelay(last) == IF last THEN "converge" ELSE "fetch"

\* Lines 302, 332-339: where the while loop goes after a page: out of the
\* loop (break), or through page++ into await client.delay(50).
AfterPage(last) == IF last THEN "converge" ELSE "delay"

\* Variant: only an empty page ends the loop.
MorePagesUntilEmpty(response, lim) == Len(response.data) > 0

\* Variant: the test of line 337 is missing.
MorePagesAlways(response, lim) == TRUE

\* Line 337 negated: the loop goes on to the next page.
MorePages(response, lim) == response.hasMore /\ ~(Len(response.data) < lim)

\* ------------------------------------------------ convergence engine (4.6)
\* Variant: the persisted record must be strictly newer to be kept.
ShouldSkipStrict(hasExisting, existingTurns, existingLast, turns, time) ==
    /\ hasExisting
    /\ Len(existingTurns) = Len(turns)
    /\ existingLast > time

\* Variant: the timestamps are not compared.
ShouldSkipCountOnly(hasExisting, existingTurns, existingLast, turns, time) ==
    /\ hasExisting
    /\ Len(existingTurns) = Len(turns)

\* Line 349: existing && same turn count && last_message_at >= time
ShouldSkip(hasExisting, existingTurns, existingLast, turns, time) ==
    /\ hasExisting
    /\ Len(existingTurns) = Len(turns)
    /\ existingLast >= time

\* Variant: the parent check is missing.
ParentAssumed(tbl, sessionId) == TRUE

\* Lines 355-356: const parentSession = await Session.findOne(...)
ParentExists(tbl, sessionId) == sessionId \in DOMAIN tbl

\* Line 264: if (startedAt < SYNC_START_DATE) continue
SessionInRange(startedAt) == ~(startedAt < SYNC_START_DATE)

\* ------------------------------------------------------------ retry wrapper
\* The error of a failed attempt: error.response and error.response.status.
HttpError(status) == [response |-> TRUE, status |-> status]
\* An error without a response (timeout, connection refused).
NetworkError == [response |-> FALSE, status |-> 0]
\* let lastError, before any attempt has failed.
NoError == [response |-> FALSE, status |-> 0 - 1]

\* Errors an attempt can fail with: no response, and statuses around the
\* limits of the test of line 13.
RetryErrors ==
    {NetworkError} \cup
    {HttpError(status) : status \in {399, 400, 404, 429, 499, 500, 503}}

\* Every 4xx status is final, 429 too.
NonRetryableAll4xx(error) ==
    error.response /\ error.status >= 400 /\ error.status < 500

\* Line 13: a client error other than 429 is not retried.
NonRetryable(error) ==
    /\ error.response
    /\ error.status >= 400 /\ error.status < 500
    /\ error.status # 429

\* The last attempt is noticed one iteration late.
IsLastAttemptLate(attempt, maxRetries) == attempt > maxRetries

\* Line 17: if (attempt === maxRetries)
IsLastAttempt(attempt, maxRetries) == attempt = maxRetries

\* Line 22: baseDelay * Math.pow(2, attempt - 1)
BackoffDelay(attempt) == baseDelay * 2 ^ (attempt - 1)

\* Line 23: Math.random() * 1000, the least and the largest whole value.
Jitters == {0, 999}

\* Lines 9-28: the catch block of one attempt. st is the state of the call:
\* at (where it is), attempt, calls (invocations of the operation so far),
\* waits (the delays slept), errors (of the failed attempts), thrown.
RetryCatch(st, error, jitter) ==
    LET failed == [st EXCEPT !.calls = @ + 1, !.errors = Append(@, error),
                             !.lastError = error]
    IN  IF NonRetryable(error) \/ IsLastAttempt(st.attempt, st.maxRetries)
        THEN [failed EXCEPT !.at = "thrown", !.thrown = error]
        ELSE [failed EXCEPT
                 !.at = "wait",
                 !.waits = Append(@, BackoffDelay(st.attempt) + jitter)]

\* Lines 6 and 31: the loop test before an attempt; when it fails the loop is
\* left and lastError is thrown.
RetryLoop(st, attempt) ==
    IF attempt <= st.maxRetries
    THEN [st EXCEPT !.at = "call", !.attempt = attempt]
    ELSE [st EXCEPT !.at = "thrown", !.attempt = attempt,
                    !.thrown = st.lastError]

\* ===================================================================== state
VARIABLES
    \* upstream platform (environment)
    upAgents,        \* the agent names getAllAgents returns, in order
    upSessions,      \* agent -> (session id -> createdAt or NoTime)
    upLogs,          \* agent -> the log entries matching the query, in order
    \* persistence (PostgreSQL tables)
    dbAgents,        \* the agent_id keys of Agents
    dbSessions,      \* session_id -> Session row
    dbConversations, \* session_id -> Conversation row
    \* runSyncCycle
    pc,              \* position of the cycle
    agents,          \* the agent list syncAgents returned
    agentIdx,        \* index of the agent the for loops are at
    page,            \* let page
    response,        \* const response of the last getAgentLogs
    stopFetchingForAgent,
    sessionContexts, \* const sessionContexts = new Map()
    convIdx,         \* position of the for-of loop over sessionContexts
    pending,         \* the upsert whose Session.update is still to run
    \* history
    requested,       \* agent -> pages requested in this cycle
    examined,        \* agent -> log entries the for loop looked at, in order
    offered,         \* agent -> the log entries handed to the selector
    writes,          \* convergence writes of this cycle
    stableRuns,      \* cycles finished since the upstream last changed (<= 2)
    lastConv,        \* outcome of the last convergence iteration
    \* turn assembler run on its own
    messages, asm,
    \* retryWithBackoff run on its own
    retry,
    \* SyncJob: the instance fields, and the calls of run()
    job, runs,
    \* main: the timers and the cycles in progress
    loop,
    \* what went wrong in the cycle (history)
    fault,
    \* cleanUserMessage run on its own
    sanitizer,
    \* the scan of parseContextLog (lines 145-213) run on its own
    parser,
    \* LogService.syncLogsForSession and the Log collection
    logSync,
    \* syncLogsOnly of scripts/sync-logs-only.js
    fanOut,
    \* the process and its signal handlers
    proc,
    \* syncSessionsForAgent / syncAgents and the collection they write
    svc

vars == <<upAgents, upSessions, upLogs, dbAgents, dbSessions, dbConversations,
          pc, agents, agentIdx, page, response, stopFetchingForAgent,
          sessionContexts, convIdx, pending, requested, examined, offered,
          writes, stableRuns, lastConv, messages, asm, retry, job, runs,
          loop, fault, sanitizer, parser, logSync, fanOut, proc, svc>>

envVars == <<upAgents, upSessions, upLogs>>
dbVars == <<dbAgents, dbSessions, dbConversations>>
scanVars == <<page, response, stopFetchingForAgent, sessionContexts>>
histVars == <<requested, examined, offered, writes, lastConv>>
asmVars == <<messages, asm>>
subVars == <<retry, job, runs, loop>>
moreVars == <<sanitizer, parser, logSync, fanOut, proc, svc>>
otherVars == <<asmVars, subVars, fault, moreVars>>

NoTime == 0 - 1
NoResponse == [data |-> <<>>, page |-> 0, hasMore |-> FALSE]
NoPending == [sessionId |-> None, count |-> 0]
NoConv == [sessionId |-> None, outcome |-> "none", existed |-> FALSE,
           sameCount |-> FALSE]
AsmIdle == [i |-> 1, turnId |-> 0, turns |-> <<>>]
CleanIdle == [msg |-> <<>>, out |-> <<>>, done |-> FALSE]
LogSyncIdle ==
    [at |-> "off", sessionId |-> "none", upstream |-> <<>>, Log |-> <<>>,
     now |-> 0, run |-> 0, startTime |-> 0 - 1, logsToProcess |-> <<>>,
     i |-> 0, inserted |-> 0, skipped |-> 0, results |-> <<>>,
     before |-> <<>>, failures |-> <<>>,
     page |-> 1, batch |-> <<>>, failed |-> 0, totalFetched |-> 0]
\* The loop of syncSessionsForAgent / syncAgents: items (the keys of the
\* fetched documents), i (loop position), the counters, code (the error the
\* upsert was rejected with), store (the keys in the collection), and the
\* history: ops (the writes issued) and results (what each upsert call
\* returned or threw).
SvcIdle ==
    [at |-> "off", kind |-> "none", items |-> <<>>, i |-> 1,
     created |-> 0, updated |-> 0, failed |-> 0, code |-> 0,
     store |-> {}, ops |-> <<>>, results |-> <<>>]
FanOutIdle ==
    [at |-> "off", sessions |-> 0, i |-> 0, status |-> <<>>,
     started |-> <<>>, completed |-> 0, totalFailed |-> 0,
     batches |-> 0]
ProcIdle ==
    [variant |-> "off", signals |-> 0, handlers |-> <<>>,
     shuttingDown |-> FALSE, cronTask |-> FALSE, db |-> "open",
     client |-> "open", syncing |-> FALSE, exited |-> FALSE,
     log |-> <<>>]
ParserIdle ==
    [logMessage |-> <<>>, arrayContent |-> <<>>, at |-> "idle", pos |-> 0,
     type |-> "", quoteChar |-> "", contentValueStart |-> 0,
     contentEnd |-> 0, escaped |-> FALSE, messages |-> <<>>,
     entries |-> <<>>, wellFormed |-> FALSE]
RetryIdle == [at |-> "off", maxRetries |-> 0, attempt |-> 0, calls |-> 0,
              waits |-> <<>>, errors |-> <<>>, lastError |-> NoError,
              thrown |-> NoError, result |-> 0]
\* this.stats, reduced to the counters the run itself adds to, and resets,
\* the number of times the run replaced it (history).
ZeroStats == [sessionsSynced |-> 0, sessionsFailed |-> 0,
              logsSynced |-> 0, logsFailed |-> 0]
JobIdle == [isRunning |-> FALSE, stats |-> ZeroStats, lastRun |-> FALSE,
            resets |-> 0]
NoRuns == <<>>
\* A call of run(): at (where it is), source (who called), the loop
\* positions, result, and steps, the sync steps it has awaited (history).
NewRun == [at |-> "new", source |-> None, agentIdx |-> 1, sessIdx |-> 1,
           result |-> "none", steps |-> 0]
\* main: variant (how the next cycle is scheduled), timer (a timeout is
\* pending, or the interval is installed), cycles (the runSyncCycle calls in
\* progress, oldest first), started and log (history: cycles started, and
\* how the finished ones ended).
LoopIdle == [variant |-> "off", timer |-> FALSE, cycles |-> <<>>,
             started |-> 0, log |-> <<>>]
\* error: what the catch of runSyncCycle got in this cycle; agent: the agent
\* being processed then; failures: how often the failing upstream call was
\* made; status: its error; caught: session errors caught in this cycle;
\* crashes: process terminations so far.
NoFault == [error |-> "none", agent |-> None, failures |-> 0,
            status |-> NoError, caught |-> 0, crashes |-> 0]

agent == agents[agentIdx]

\* ------------------------------------------------------------ runSyncCycle
\* runSyncCycle start and syncAgents (lines 244-256, 395-399).
SyncAgents ==
    /\ pc = "idle"
    /\ agents' = upAgents
    /\ dbAgents' = dbAgents \cup {upAgents[i] : i \in 1 .. Len(upAgents)}
    /\ agentIdx' = 1
    /\ pc' = "sessions"
    /\ requested' = [a \in Agents |-> <<>>]
    /\ examined' = [a \in Agents |-> <<>>]
    /\ offered' = [a \in Agents |-> {}]
    /\ writes' = 0
    /\ lastConv' = NoConv
    /\ fault' = [NoFault EXCEPT !.crashes = fault.crashes]
    /\ UNCHANGED <<envVars, dbSessions, dbConversations, scanVars, convIdx,
                   pending, stableRuns, asmVars, moreVars, subVars>>

\* Session.upsert (lines 273-284): the given fields are written, an existing
\* row keeps conversation_count, a new row gets the default 0.
UpsertSession(tbl, sid, agentId, startedAt) ==
    IF sid \in DOMAIN tbl
    THEN [tbl EXCEPT ![sid] = [@ EXCEPT !.agent_id = agentId,
                                        !.started_at = startedAt]]
    ELSE (sid :> [agent_id |-> agentId, started_at |-> startedAt,
                  conversation_count |-> 0]) @@ tbl

\* new Date() at line 263, for a session without createdAt: the service
\* runs after the horizon.
Now == SYNC_START_DATE + 1

\* Line 263: const startedAt = session.createdAt ? ... : new Date()
StartedAt(createdAt) == IF createdAt = NoTime THEN Now ELSE createdAt

RECURSIVE UpsertSessions(_, _, _, _)
UpsertSessions(tbl, a, sess, todo) ==
    IF todo = {} THEN tbl
    ELSE LET sid == CHOOSE x \in todo : TRUE
             startedAt == StartedAt(sess[sid])
         IN  UpsertSessions(
                 IF SessionInRange(startedAt)
                 THEN UpsertSession(tbl, sid, a, startedAt) ELSE tbl,
                 a, sess, todo \ {sid})

\* syncSessions, one agent of the for loop (lines 259-286).
SyncSessions ==
    /\ pc = "sessions"
    /\ agentIdx <= Len(agents)
    /\ dbSessions' = UpsertSessions(dbSessions, agent, upSessions[agent],
                                    DOMAIN upSessions[agent])
    /\ agentIdx' = agentIdx + 1
    /\ UNCHANGED <<envVars, dbAgents, dbConversations, pc, agents, scanVars,
                   convIdx, pending, histVars, stableRuns, otherVars>>

\* Variant: one map declared outside the for-of loop over the agents.
NewMapShared(previous) == previous

\* Line 295: const sessionContexts = new Map(), declared in the body of the
\* for-of loop; the map of the previous iteration is out of scope.
NewMap(previous) == EmptyMap

\* Lines 292-296: the next agent of syncConversations, or the end of the
\* cycle (lines 390-406) after the last one.
EnterAgent(idx) ==
    IF idx <= Len(agents)
    THEN /\ pc' = "fetch"
         /\ agentIdx' = idx
         /\ page' = 1
         /\ sessionContexts' = NewMap(sessionContexts)
         /\ stopFetchingForAgent' = FALSE
         /\ response' = NoResponse
         /\ convIdx' = 1
         /\ UNCHANGED stableRuns
    ELSE /\ pc' = "idle"
         /\ agentIdx' = 1
         /\ stableRuns' = IF stableRuns < 2 THEN stableRuns + 1 ELSE 2
         /\ UNCHANGED <<scanVars, convIdx>>

\* syncSessions returns, syncConversations starts (lines 400-401, 289-296).
StartConversations ==
    /\ pc = "sessions"
    /\ agentIdx > Len(agents)
    /\ EnterAgent(1)
    /\ UNCHANGED <<envVars, dbVars, agents, pending, histVars, otherVars>>

\* Line 299: await client.getAgentLogs(agent.name, null, page, limit, ...)
FetchPage ==
    /\ pc = "fetch"
    /\ response' = getAgentLogs(upLogs[agent], page, limit)
    /\ requested' = [requested EXCEPT ![agent] = Append(@, page)]
    /\ pc' = "process"
    /\ UNCHANGED <<envVars, dbVars, agents, agentIdx, page,
                   stopFetchingForAgent, sessionContexts, convIdx, pending,
                   examined, offered, writes, lastConv, stableRuns, otherVars>>

\* Lines 300-339: the page is scanned; the loop ends on an empty page, on
\* the early stop, or on a last page, and otherwise waits for the next page.
ProcessPage ==
    /\ pc = "process"
    /\ LET logs == response.data
           st == ScanPage([ctx |-> sessionContexts, stop |-> FALSE,
                           examined |-> examined[agent],
                           offered |-> offered[agent]], logs, 1)
       IN  /\ sessionContexts' = st.ctx
           /\ stopFetchingForAgent' = st.stop
           /\ examined' = [examined EXCEPT ![agent] = st.examined]
           /\ offered' = [offered EXCEPT ![agent] = st.offered]
           /\ LET last == Len(logs) = 0 \/ st.stop
                           \/ ~MorePages(response, limit)
              IN  /\ pc' = AfterPage(last)
                  /\ page' = IF last THEN page ELSE page + 1
    /\ convIdx' = 1
    /\ UNCHANGED <<envVars, dbVars, agents, agentIdx, response, pending,
                   requested, writes, lastConv, stableRuns, otherVars>>

\* Line 339: await client.delay(50)
Delay ==
    /\ pc = "delay"
    /\ pc' = "fetch"
    /\ UNCHANGED <<envVars, dbVars, agents, agentIdx, scanVars, convIdx,
                   pending, histVars, stableRuns, otherVars>>

\* Conversation.upsert (lines 361-370)
UpsertConversation(tbl, sid, agentId, turns, time) ==
    (sid :> [agent_id |-> agentId, turns |-> turns,
             total_turns |-> Len(turns), last_message_at |-> time]) @@ tbl

\* Lines 342-370: one iteration of the for-of loop up to Conversation.upsert.
ConvergeSession ==
    /\ pc = "converge"
    /\ convIdx <= Len(sessionContexts.order)
    /\ LET sessionId == sessionContexts.order[convIdx]
           sel == MapGet(sessionContexts, sessionId)
           turns == parseContextLog(sel.log)
           has == sessionId \in DOMAIN dbConversations
           existing == dbConversations[sessionId]
           done(outcome) ==
               [sessionId |-> sessionId, outcome |-> outcome,
                existed |-> has,
                sameCount |-> has /\ Len(existing.turns) = Len(turns)]
       IN  IF Len(turns) = 0
           THEN /\ lastConv' = done("empty")
                /\ convIdx' = convIdx + 1
                /\ UNCHANGED <<dbConversations, pc, pending, writes>>
           ELSE IF ShouldSkip(has, IF has THEN existing.turns ELSE <<>>,
                              IF has THEN existing.last_message_at ELSE 0,
                              turns, sel.time)
           THEN /\ lastConv' = done("skipped")
                /\ convIdx' = convIdx + 1
                /\ UNCHANGED <<dbConversations, pc, pending, writes>>
           ELSE IF ~ParentExists(dbSessions, sessionId)
           THEN /\ lastConv' = done("noparent")
                /\ convIdx' = convIdx + 1
                /\ UNCHANGED <<dbConversations, pc, pending, writes>>
           ELSE /\ dbConversations' =
                       UpsertConversation(dbConversations, sessionId, agent,
                                          turns, sel.time)
                /\ lastConv' = done("upserted")
                /\ pending' = [sessionId |-> sessionId, count |-> Len(turns)]
                /\ writes' = writes + 1
                /\ pc' = "count"
                /\ UNCHANGED convIdx
    /\ UNCHANGED <<envVars, dbAgents, dbSessions, agents, agentIdx, scanVars,
                   requested, examined, offered, stableRuns, otherVars>>

\* Lines 373-383: Session.update({conversation_count}, {where session_id}).
UpdateSessionCount ==
    /\ pc = "count"
    /\ dbSessions' =
           IF pending.sessionId \in DOMAIN dbSessions
           THEN [dbSessions EXCEPT
                    ![pending.sessionId].conversation_count = pending.count]
           ELSE dbSessions
    /\ writes' = writes + 1
    /\ pending' = NoPending
    /\ convIdx' = convIdx + 1
    /\ pc' = "converge"
    /\ UNCHANGED <<envVars, dbAgents, dbConversations, agents, agentIdx,
                   scanVars, requested, examined, offered, lastConv,
                   stableRuns, otherVars>>

\* The for-of loop is done: the next agent, or the end of the cycle.
FinishAgent ==
    /\ pc = "converge"
    /\ convIdx > Len(sessionContexts.order)
    /\ EnterAgent(agentIdx + 1)
    /\ UNCHANGED <<envVars, dbVars, agents, pending, histVars, otherVars>>

Cycle ==
    \/ SyncAgents
    \/ SyncSessions
    \/ StartConversations
    \/ FetchPage
    \/ ProcessPage
    \/ Delay
    \/ ConvergeSession
    \/ UpdateSessionCount
    \/ FinishAgent

\* ------------------------------------------------- failures inside the cycle
\* Lines 402-404: an error reaches the catch of runSyncCycle, is logged, and
\* the cycle is over.
CycleAborts(kind, error) ==
    /\ pc' = "idle"
    /\ agentIdx' = 1
    /\ pending' = NoPending
    /\ fault' = [fault EXCEPT !.error = kind,
                              !.agent = IF pc = "idle" THEN None ELSE agent,
                              !.failures = IF kind = "upstream" THEN 1 ELSE 0,
                              !.status = error,
                              !.caught = IF pc = "idle" THEN 0 ELSE @]

\* Line 245: client.getAllAgents() rejects; nothing is wrapped around it.
AgentsRequestFails ==
    /\ pc = "idle"
    /\ \E error \in RetryErrors : CycleAborts("upstream", error)
    /\ requested' = [a \in Agents |-> <<>>]
    /\ examined' = [a \in Agents |-> <<>>]
    /\ offered' = [a \in Agents |-> {}]
    /\ writes' = 0
    /\ lastConv' = NoConv
    /\ UNCHANGED <<envVars, dbVars, agents, scanVars, convIdx, stableRuns,
                   asmVars, moreVars, subVars>>

\* Line 260: client.getAllSessionsForAgent(agent.name) rejects.
SessionsRequestFails ==
    /\ pc = "sessions"
    /\ agentIdx <= Len(agents)
    /\ \E error \in RetryErrors : CycleAborts("upstream", error)
    /\ UNCHANGED <<envVars, dbVars, agents, scanVars, convIdx, histVars,
                   stableRuns, asmVars, moreVars, subVars>>

\* Line 273: Session.upsert rejects for one session of the agent, after
\* some of the agent's other sessions were written.
SessionUpsertFails ==
    /\ pc = "sessions"
    /\ agentIdx <= Len(agents)
    /\ \E written \in SUBSET DOMAIN upSessions[agent] :
         /\ written # DOMAIN upSessions[agent]
         /\ dbSessions' = UpsertSessions(dbSessions, agent, upSessions[agent],
                                         written)
    /\ CycleAborts("db", NoError)
    /\ UNCHANGED <<envVars, dbAgents, dbConversations, agents, scanVars,
                   convIdx, histVars, stableRuns, asmVars, moreVars, subVars>>

\* Line 299: client.getAgentLogs(...) rejects.
LogsRequestFails ==
    /\ pc = "fetch"
    /\ \E error \in RetryErrors : CycleAborts("upstream", error)
    /\ requested' = [requested EXCEPT ![agent] = Append(@, page)]
    /\ UNCHANGED <<envVars, dbVars, agents, scanVars, convIdx, examined,
                   offered, writes, lastConv, stableRuns, asmVars,
                   moreVars, subVars>>

\* The session error is not caught in the loop and ends the cycle.
AfterSessionErrorAbort(idx) ==
    [pc |-> "idle", convIdx |-> idx, error |-> "db", caught |-> 0]

\* Lines 384-386: catch (e) inside the for-of loop: the error is logged and
\* the loop goes on with the next session.
AfterSessionError(idx) ==
    [pc |-> "converge", convIdx |-> idx + 1, error |-> "none", caught |-> 1]

\* Lines 345-370: parseContextLog, Conversation.findOne, Session.findOne or
\* Conversation.upsert throws for the session the loop is at; nothing was
\* written for it.
ConvergeFails ==
    /\ pc = "converge"
    /\ convIdx <= Len(sessionContexts.order)
    /\ LET after == AfterSessionError(convIdx)
           sessionId == sessionContexts.order[convIdx]
       IN  /\ pc' = after.pc
           /\ convIdx' = after.convIdx
           /\ fault' = [fault EXCEPT
                           !.error = IF after.error = "none" THEN @
                                     ELSE after.error,
                           !.caught = @ + after.caught]
           /\ lastConv' = [sessionId |-> sessionId, outcome |-> "error",
                           existed |-> sessionId \in DOMAIN dbConversations,
                           sameCount |-> FALSE]
    /\ UNCHANGED <<envVars, dbVars, agents, agentIdx, scanVars, pending,
                   requested, examined, offered, writes, stableRuns, asmVars,
                   moreVars,
                   subVars>>

\* Line 373: Session.update rejects after Conversation.upsert went through.
CountUpdateFails ==
    /\ pc = "count"
    /\ LET after == AfterSessionError(convIdx)
       IN  /\ pc' = after.pc
           /\ convIdx' = after.convIdx
           /\ fault' = [fault EXCEPT
                           !.error = IF after.error = "none" THEN @
                                     ELSE after.error,
                           !.caught = @ + after.caught]
    /\ pending' = NoPending
    /\ lastConv' = [lastConv EXCEPT !.outcome = "error"]
    /\ UNCHANGED <<envVars, dbVars, agents, agentIdx, scanVars, requested,
                   examined, offered, writes, stableRuns, asmVars,
                   moreVars, subVars>>

Faults ==
    \/ AgentsRequestFails
    \/ SessionsRequestFails
    \/ SessionUpsertFails
    \/ LogsRequestFails
    \/ ConvergeFails
    \/ CountUpdateFails

\* The process is terminated inside a cycle and started again (main, lines
\* 408-419): the store is what the cycle had written so far.
Crash ==
    /\ pc \in {"sessions", "fetch", "process", "delay", "converge", "count"}
    /\ fault.crashes < MaxCrashes
    /\ pc' = "idle"
    /\ agents' = <<>>
    /\ agentIdx' = 1
    /\ page' = 1
    /\ response' = NoResponse
    /\ stopFetchingForAgent' = FALSE
    /\ sessionContexts' = EmptyMap
    /\ convIdx' = 1
    /\ pending' = NoPending
    /\ stableRuns' = 0
    /\ fault' = [fault EXCEPT !.crashes = @ + 1]
    /\ UNCHANGED <<envVars, dbVars, histVars, asmVars, moreVars, subVars>>

\* -------------------------------------------- one whole cycle as a function
\* Lines 298-340: the pages of one agent from page pg on, into the map ctx.
RECURSIVE FetchPages(_, _, _)
FetchPages(logs, pg, ctx) ==
    LET resp == getAgentLogs(logs, pg, limit)
        st == ScanPage([ctx |-> ctx, stop |-> FALSE, examined |-> <<>>,
                        offered |-> {}], resp.data, 1)
    IN  IF Len(resp.data) = 0 \/ st.stop \/ ~MorePages(resp, limit)
        THEN st.ctx
        ELSE FetchPages(logs, pg + 1, st.ctx)

\* Lines 342-387: the for-of loop from entry k on, on the store
\* db = [sessions, conversations].
RECURSIVE ConvergeFrom(_, _, _, _)
ConvergeFrom(db, a, ctx, k) ==
    IF k > Len(ctx.order) THEN db
    ELSE LET sessionId == ctx.order[k]
             sel == MapGet(ctx, sessionId)
             turns == parseContextLog(sel.log)
             has == sessionId \in DOMAIN db.conversations
             existing == db.conversations[sessionId]
             next ==
                 IF Len(turns) = 0 THEN db
                 ELSE IF ShouldSkip(has,
                                    IF has THEN existing.turns ELSE <<>>,
                                    IF has THEN existing.last_message_at
                                    ELSE 0,
                                    turns, sel.time)
                 THEN db
                 ELSE IF ~ParentExists(db.sessions, sessionId) THEN db
                 ELSE [sessions |->
                           [db.sessions EXCEPT
                               ![sessionId].conversation_count = Len(turns)],
                       conversations |->
                           UpsertConversation(db.conversations, sessionId, a,
                                              turns, sel.time)]
         IN  ConvergeFrom(next, a, ctx, k + 1)

\* Lines 258-287: syncSessions over the agents from index k on.
RECURSIVE SessionsFrom(_, _, _)
SessionsFrom(tbl, as, k) ==
    IF k > Len(as) THEN tbl
    ELSE SessionsFrom(UpsertSessions(tbl, as[k], upSessions[as[k]],
                                     DOMAIN upSessions[as[k]]), as, k + 1)

\* Lines 289-393: syncConversations over the agents from index k on.
RECURSIVE ConversationsFrom(_, _, _)
ConversationsFrom(db, as, k) ==
    IF k > Len(as) THEN db
    ELSE ConversationsFrom(
             ConvergeFrom(db, as[k], FetchPages(upLogs[as[k]], 1, EmptyMap),
                          1),
             as, k + 1)

\* Lines 395-406: what one cycle that runs to its end leaves in the store
\* db, against the upstream as it is.
RunCycleOn(db) ==
    ConversationsFrom(
        [sessions |-> SessionsFrom(db.sessions, upAgents, 1),
         conversations |-> db.conversations],
        upAgents, 1)

\* ================================================================== SyncJob
Calls == 1 .. MaxCalls
Sources == {"cron", "startup", "manual"}

\* What getAllAgentNames and getAllSessionsForAgent find in the store.
JobAgents == <<"a1", "a2">>
JobSessions == ("a1" :> <<"s1", "s2">>) @@ ("a2" :> <<"s3">>)

\* The guard lets every call in.
RefusesNever(isRunning) == FALSE

\* sync.job.js line 23: if (this.isRunning)
Refuses(isRunning) == isRunning

\* The calls whose run body is executing.
Bodies == {c \in DOMAIN runs : runs[c].at \notin {"new", "done"}}

JobVarsUnchanged ==
    UNCHANGED <<envVars, dbVars, pc, agents, agentIdx, scanVars, convIdx,
                pending, histVars, stableRuns, asmVars,
                moreVars, retry, loop, fault>>

\* Variant: isRunning is reset after the success result only.
FinallyOnSuccess(result, isRunning) ==
    IF result = "failure" THEN isRunning ELSE FALSE

\* Lines 107-109: finally { this.isRunning = false }, whatever is returned.
Finally(result, isRunning) == FALSE

\* Lines 82-95 and 107-109: the run returns its success result.
RunSucceeds(c, stats) ==
    /\ runs' = [runs EXCEPT ![c].at = "done", ![c].result = "success",
                            ![c].steps = @ + 1]
    /\ job' = [job EXCEPT !.stats = stats, !.lastRun = TRUE,
                          !.isRunning = Finally("success", @)]

\* Lines 97-109: the outer catch returns the failure result.
RunFails(c) ==
    /\ runs' = [runs EXCEPT ![c].at = "done", ![c].result = "failure",
                            ![c].steps = @ + 1]
    /\ job' = [job EXCEPT !.isRunning = Finally("failure", @)]

\* Lines 49 and 80-95: the for loop over the agents goes to index idx, or
\* the run is over after the last agent.
RunAgent(c, idx, stats) ==
    IF idx <= Len(JobAgents)
    THEN /\ runs' = [runs EXCEPT ![c].at = "sessions", ![c].agentIdx = idx,
                                 ![c].sessIdx = 1, ![c].steps = @ + 1]
         /\ job' = [job EXCEPT !.stats = stats]
    ELSE RunSucceeds(c, stats)

\* Lines 64 and 74-80: the for loop over the sessions of the agent goes to
\* index idx, or on to the next agent after the last session.
RunSession(c, idx, stats) ==
    IF idx <= Len(JobSessions[JobAgents[runs[c].agentIdx]])
    THEN /\ runs' = [runs EXCEPT ![c].at = "logs", ![c].sessIdx = idx,
                                 ![c].steps = @ + 1]
         /\ job' = [job EXCEPT !.stats = stats]
    ELSE RunAgent(c, runs[c].agentIdx + 1, stats)

\* Lines 22-42: run() is called by the cron callback (cron.js 20-23), the
\* startup timer (cron.js 31) or triggerManualSync (cron.js 42-45); up to
\* the first await nothing else runs.
JobRun(c) ==
    /\ pc = "job"
    /\ runs[c].at = "new"
    /\ \A b \in Calls : b < c => runs[b].at # "new"
    /\ \E source \in Sources :
         /\ source = "startup" =>
                \A b \in Calls : runs[b].source # "startup"
         /\ IF Refuses(job.isRunning)
            THEN /\ runs' = [runs EXCEPT ![c].at = "done",
                                         ![c].source = source,
                                         ![c].result = "skipped"]
                 /\ UNCHANGED job
            ELSE /\ runs' = [runs EXCEPT ![c].at = "agents",
                                         ![c].source = source]
                 /\ job' = [job EXCEPT !.isRunning = TRUE,
                                       !.stats = ZeroStats,
                                       !.resets = @ + 1]
    /\ JobVarsUnchanged

\* Line 42: await this.agentService.syncAgents()
JobSyncAgents(c) ==
    /\ pc = "job"
    /\ runs[c].at = "agents"
    /\ \/ /\ runs' = [runs EXCEPT ![c].at = "names", ![c].steps = @ + 1]
          /\ UNCHANGED job
       \/ RunFails(c)
    /\ JobVarsUnchanged

\* Line 46: await this.agentService.getAllAgentNames()
JobAgentNames(c) ==
    /\ pc = "job"
    /\ runs[c].at = "names"
    /\ \/ RunAgent(c, 1, job.stats)
       \/ RunFails(c)
    /\ JobVarsUnchanged

\* Lines 53-57 and 76-79: await syncSessionsForAgent; a rejection is caught
\* by the catch of the agent loop.
JobSyncSessions(c) ==
    /\ pc = "job"
    /\ runs[c].at = "sessions"
    /\ \/ /\ runs' = [runs EXCEPT ![c].at = "list", ![c].steps = @ + 1]
          /\ job' = [job EXCEPT !.stats.sessionsSynced = @ + 1]
       \/ RunAgent(c, runs[c].agentIdx + 1,
                   [job.stats EXCEPT !.sessionsFailed = @ + 1])
    /\ JobVarsUnchanged

\* Lines 61 and 113-125: the sessions of the agent from the store, or the
\* empty list when the query fails.
JobListSessions(c) ==
    /\ pc = "job"
    /\ runs[c].at = "list"
    /\ \/ RunSession(c, 1, job.stats)
       \/ RunAgent(c, runs[c].agentIdx + 1, job.stats)
    /\ JobVarsUnchanged

\* Lines 65-73: await syncLogsForSession; a rejection is caught by the catch
\* of the session loop and counted.
JobSyncLogs(c) ==
    /\ pc = "job"
    /\ runs[c].at = "logs"
    /\ \/ RunSession(c, runs[c].sessIdx + 1,
                     [job.stats EXCEPT !.logsSynced = @ + 1])
       \/ RunSession(c, runs[c].sessIdx + 1,
                     [job.stats EXCEPT !.logsFailed = @ + 1])
    /\ JobVarsUnchanged

JobNext ==
    \E c \in Calls :
        \/ JobRun(c)
        \/ JobSyncAgents(c)
        \/ JobAgentNames(c)
        \/ JobSyncSessions(c)
        \/ JobListSessions(c)
        \/ JobSyncLogs(c)

\* ========================================================= continuous loop
\* The awaits of runSyncCycle (lines 398-401), in order.
CycleSteps == <<"agents", "sessions", "conversations">>

RemoveAt(s, i) == SubSeq(s, 1, i - 1) \o SubSeq(s, i + 1, Len(s))

\* The timer stays armed when it fires, whatever the variant.
RearmAtStartAlways(variant) == TRUE

\* Whether the timer is still armed after it has fired: setInterval (line
\* 816) fires again and again; the timeout of loop() (lines 421-426) fires
\* once and is set again only by the loop() call after await runSyncCycle().
RearmAtStart(variant) == variant = "setInterval"

\* Variant: runSyncCycle has no catch, and a cycle that failed is not
\* followed by the call that schedules the next one.
RearmAtEndOnSuccess(by, variant, outcome, timer) ==
    IF outcome = "failed" THEN timer
    ELSE IF by = "main" THEN TRUE
    ELSE IF variant = "setTimeout" THEN TRUE
    ELSE timer

\* Whether a timer is pending once a cycle is over.  runSyncCycle catches
\* every error (lines 402-404) and returns; then main goes on to loop() or
\* setInterval (lines 419-427, 815-816), and the timeout callback goes on to
\* loop() (lines 423-424); the interval callback schedules nothing.
RearmAtEnd(by, variant, outcome, timer) ==
    IF by = "main" THEN TRUE
    ELSE IF variant = "setTimeout" THEN TRUE
    ELSE timer

LoopVarsUnchanged ==
    UNCHANGED <<envVars, dbVars, pc, agents, agentIdx, scanVars, convIdx,
                pending, histVars, stableRuns, asmVars,
                moreVars, retry, job, runs,
                fault>>

\* An await inside a cycle in progress resolves (lines 399-401).
LoopCycleStep ==
    /\ pc = "loop"
    /\ \E i \in 1 .. Len(loop.cycles) :
         /\ loop.cycles[i].step < Len(CycleSteps)
         /\ loop' = [loop EXCEPT !.cycles[i].step = @ + 1]
    /\ LoopVarsUnchanged

\* A cycle in progress is over: its last await resolves, or any of its
\* awaits rejects and the catch of lines 402-404 logs the error.  Then main
\* (lines 419-427, 815-816) or the timer callback (lines 423-424) goes on:
\* loop() sets the timeout, main sets the interval.
LoopCycleEnds ==
    /\ pc = "loop"
    /\ \E i \in 1 .. Len(loop.cycles) :
         LET cycle == loop.cycles[i] IN
         \E outcome \in {"ok", "failed"} :
           /\ outcome = "ok" => cycle.step = Len(CycleSteps)
           /\ loop' = [loop EXCEPT
                  !.cycles = RemoveAt(@, i),
                  !.log = Append(@, [outcome |-> outcome,
                                     step |-> CycleSteps[cycle.step]]),
                  !.timer = RearmAtEnd(cycle.by, loop.variant, outcome, @)]
    /\ LoopVarsUnchanged

\* The timeout or the interval fires and its callback calls runSyncCycle.
LoopTimerFires ==
    /\ pc = "loop"
    /\ loop.timer
    /\ loop.started < MaxCycles
    /\ loop' = [loop EXCEPT
           !.cycles = Append(@, [step |-> 1, by |-> "timer"]),
           !.started = @ + 1,
           !.timer = RearmAtStart(loop.variant)]
    /\ LoopVarsUnchanged

LoopNext == LoopCycleStep \/ LoopCycleEnds \/ LoopTimerFires

\* ============================================================= environment
ContextLog(sid, univ, body) ==
    [isContext |-> TRUE, isUniversal |-> univ, sessionId |-> sid,
     messages |-> body]
OtherLog ==
    [isContext |-> FALSE, isUniversal |-> FALSE, sessionId |-> None,
     messages |-> <<>>]
LogEntry(t, msg) == [timestamp |-> t, log |-> msg]

UserQ == [role |-> "user", content |-> <<"Q">>]
AssistantQ == [role |-> "assistant", content |-> <<"Q">>]
\* Snapshot bodies of zero, one and two turns.
Body0 == <<>>
Body1 == <<UserQ>>
Body2 == <<UserQ, AssistantQ, UserQ>>

Horizon == SYNC_START_DATE

\* Log entries of the general cycle: snapshots of session s1 at and after
\* the horizon of both kinds and all bodies, an old snapshot, entries that
\* are no snapshot, and a snapshot without a session id.
CycleEntries ==
    {LogEntry(t, ContextLog("s1", u, b)) :
        t \in {Horizon, Horizon + 1}, u \in BOOLEAN,
        b \in {Body0, Body1, Body2}}
    \cup {LogEntry(Horizon - 1, ContextLog("s1", TRUE, Body1)),
          LogEntry(Horizon - 1, OtherLog),
          LogEntry(Horizon + 1, OtherLog),
          LogEntry(Horizon + 1, ContextLog(None, TRUE, Body1))}

\* createdAt of an upstream session: before, at the horizon, or missing.
CycleCreatedAt == {Horizon - 1, Horizon, NoTime}

\* The agents the upstream lists.
Listed == {upAgents[i] : i \in 1 .. Len(upAgents)}

InsertAt(s, pos, e) == SubSeq(s, 1, pos) \o <<e>> \o SubSeq(s, pos + 1, Len(s))

\* The upstream logs a new entry for an agent (between two cycles).
UpstreamLog ==
    /\ pc = "idle"
    /\ \E a \in Listed, e \in CycleEntries :
         /\ Len(upLogs[a]) < MaxLogs
         /\ \E pos \in 0 .. Len(upLogs[a]) :
              upLogs' = [upLogs EXCEPT ![a] = InsertAt(@, pos, e)]
    /\ stableRuns' = 0
    /\ UNCHANGED <<upAgents, upSessions, dbVars, pc, agents, agentIdx,
                   scanVars, convIdx, pending, histVars, otherVars>>

\* The upstream lists a new session for an agent (between two cycles).
UpstreamSession ==
    /\ pc = "idle"
    /\ \E a \in Listed, t \in CycleCreatedAt :
         /\ "s1" \notin DOMAIN upSessions[a]
         /\ upSessions' = [upSessions EXCEPT ![a] = ("s1" :> t) @@ @]
    /\ stableRuns' = 0
    /\ UNCHANGED <<upAgents, upLogs, dbVars, pc, agents, agentIdx,
                   scanVars, convIdx, pending, histVars, otherVars>>

\* =========================================================== specifications
InitDb ==
    /\ dbAgents = {}
    /\ dbSessions = <<>>
    /\ dbConversations = <<>>

InitCycle ==
    /\ agents = <<>>
    /\ agentIdx = 1
    /\ page = 1
    /\ response = NoResponse
    /\ stopFetchingForAgent = FALSE
    /\ sessionContexts = EmptyMap
    /\ convIdx = 1
    /\ pending = NoPending
    /\ requested = [a \in Agents |-> <<>>]
    /\ examined = [a \in Agents |-> <<>>]
    /\ offered = [a \in Agents |-> {}]
    /\ writes = 0
    /\ stableRuns = 0
    /\ lastConv = NoConv

InitAsm ==
    /\ messages = <<>>
    /\ asm = AsmIdle

InitRetry == retry = RetryIdle

InitJob ==
    /\ job = JobIdle
    /\ runs = NoRuns

InitLoop == loop = LoopIdle

InitFault == fault = NoFault

InitClean == sanitizer = CleanIdle

InitParserIdle == parser = ParserIdle
InitLogSyncIdle == logSync = LogSyncIdle
InitFanOutIdle == fanOut = FanOutIdle
InitProcIdle == proc = ProcIdle
InitSvcIdle == svc = SvcIdle

\* The functions that are run on their own only.
InitMore ==
    /\ InitClean /\ InitParserIdle
    /\ InitLogSyncIdle /\ InitFanOutIdle /\ InitProcIdle /\ InitSvcIdle

\* The parts that are not running in a given family.
InitOff == InitRetry /\ InitJob /\ InitLoop /\ InitFault

\* The realtime service from an empty store against an empty upstream.
Init ==
    /\ upAgents = <<"a1">>
    /\ upSessions = [a \in Agents |-> <<>>]
    /\ upLogs = [a \in Agents |-> <<>>]
    /\ pc = "idle"
    /\ InitDb /\ InitCycle /\ InitAsm /\ InitMore /\ InitOff

Next == Cycle \/ UpstreamLog \/ UpstreamSession

Spec == Init /\ [][Next]_vars

\* ------------------------------------------------------------- fetch family
SeqsUpTo(S, n) == UNION {[1 .. k -> S] : k \in 0 .. n}

\* Log entries of the fetch family: old or in range, snapshot or not.
FetchEntries ==
    {LogEntry(t, m) : t \in {Horizon - 1, Horizon},
                      m \in {OtherLog, ContextLog("s1", TRUE, Body1)}}

\* Agent a1 with any log list of the family, in any order, and agent a2 with
\* one snapshot of its session s2; the upstream stays as it is.
InitFetch ==
    /\ upAgents = <<"a1", "a2">>
    /\ upSessions = ("a1" :> ("s1" :> Horizon)) @@ ("a2" :> ("s2" :> Horizon))
    /\ \E logs \in SeqsUpTo(FetchEntries, MaxFetchLogs) :
           upLogs = ("a1" :> logs) @@
                    ("a2" :> <<LogEntry(Horizon, ContextLog("s2", FALSE, Body2))>>)
    /\ pc = "idle"
    /\ InitDb /\ InitCycle /\ InitAsm /\ InitMore /\ InitOff

SpecFetch == InitFetch /\ [][Cycle]_vars

\* ---------------------------------------------------------- selector alone
\* Candidate snapshots: any session, any timestamp, both kinds, two texts.
SelectorEntries ==
    {LogEntry(t, ContextLog(sid, u, b)) :
        t \in Times, sid \in SessionIds, u \in BOOLEAN, b \in {Body1, Body2}}

\* A candidate snapshot is observed (lines 318-329 on their own).
ObserveCandidate ==
    /\ pc = "selector"
    /\ \E c \in SelectorEntries :
         LET a == "a1" IN
         /\ Cardinality(offered[a]) < MaxCandidates
         /\ c \notin offered[a]
         /\ sessionContexts' =
                SelectorStep(sessionContexts, extractSessionId(c.log),
                             c.log, c.timestamp)
         /\ offered' = [offered EXCEPT ![a] = @ \cup {c}]
    /\ UNCHANGED <<envVars, dbVars, pc, agents, agentIdx, page, response,
                   stopFetchingForAgent, convIdx, pending, requested,
                   examined, writes, stableRuns, lastConv, otherVars>>

InitSelector ==
    /\ upAgents = <<>>
    /\ upSessions = [a \in Agents |-> <<>>]
    /\ upLogs = [a \in Agents |-> <<>>]
    /\ pc = "selector"
    /\ InitDb /\ InitCycle /\ InitAsm /\ InitMore /\ InitOff

SpecSelector == InitSelector /\ [][ObserveCandidate]_vars

\* ------------------------------------------------------ turn assembler alone
\* Message contents: empty, two plain texts, blank, an injected block alone (as
\* short as can be, with text before the fence, with lines and a separator
\* inside it, with a newline after it), an injected block followed by the
\* question.
TurnContents ==
    {<<>>, <<"Q">>, <<"Q", "SP", "Q">>, <<"SP">>,
     <<"MARK", "NL", "F", "J", "Q", "F">>,
     <<"MARK", "F", "J", "F">>,
     <<"MARK", "SP", "Q", "NL", "F", "J", "NL", "Q", "D", "NL", "F", "NL">>,
     <<"MARK", "NL", "F", "J", "Q", "F", "NL", "Q">>}

TurnMessages == {[role |-> r, content |-> c] : r \in Roles, c \in TurnContents}

\* One iteration of the assembler loop (lines 216-237).
AssembleNext ==
    /\ pc = "assembler"
    /\ asm.i <= Len(messages)
    /\ asm' = AssembleStep(messages, asm)
    /\ UNCHANGED <<envVars, dbVars, pc, agents, agentIdx, scanVars, convIdx,
                   pending, histVars, stableRuns, messages, subVars,
                   fault, moreVars>>

InitTurns ==
    /\ upAgents = <<>>
    /\ upSessions = [a \in Agents |-> <<>>]
    /\ upLogs = [a \in Agents |-> <<>>]
    /\ pc = "assembler"
    /\ InitDb /\ InitCycle
    /\ messages \in SeqsUpTo(TurnMessages, MaxMessages)
    /\ asm = AsmIdle
    /\ InitOff /\ InitMore

SpecTurns == InitTurns /\ [][AssembleNext]_vars

\* ------------------------------------------------------ retry wrapper alone
\* Line 6: retryWithBackoff is entered, the loop test runs for attempt 1.
RetryStart ==
    /\ pc = "retry"
    /\ retry.at = "start"
    /\ retry' = RetryLoop(retry, 1)
    /\ UNCHANGED <<envVars, dbVars, pc, agents, agentIdx, scanVars, convIdx,
                   pending, histVars, stableRuns, asmVars,
                   moreVars, job, runs, loop,
                   fault>>

\* Line 8: await operation() resolves, its result is returned.
RetrySucceeds ==
    /\ pc = "retry"
    /\ retry.at = "call"
    /\ retry' = [retry EXCEPT !.at = "returned", !.calls = @ + 1,
                              !.result = retry.attempt]
    /\ UNCHANGED <<envVars, dbVars, pc, agents, agentIdx, scanVars, convIdx,
                   pending, histVars, stableRuns, asmVars,
                   moreVars, job, runs, loop,
                   fault>>

\* Lines 8-27: await operation() rejects.
RetryFails ==
    /\ pc = "retry"
    /\ retry.at = "call"
    /\ \E error \in RetryErrors, jitter \in Jitters :
           retry' = RetryCatch(retry, error, jitter)
    /\ UNCHANGED <<envVars, dbVars, pc, agents, agentIdx, scanVars, convIdx,
                   pending, histVars, stableRuns, asmVars,
                   moreVars, job, runs, loop,
                   fault>>

\* Lines 27 and 6: the sleep ends, attempt++ and the loop test.
RetryWaitEnds ==
    /\ pc = "retry"
    /\ retry.at = "wait"
    /\ retry' = RetryLoop(retry, retry.attempt + 1)
    /\ UNCHANGED <<envVars, dbVars, pc, agents, agentIdx, scanVars, convIdx,
                   pending, histVars, stableRuns, asmVars,
                   moreVars, job, runs, loop,
                   fault>>

RetryNext == RetryStart \/ RetrySucceeds \/ RetryFails \/ RetryWaitEnds

\* retryWithBackoff called with any maxRetries up to the bound.
InitStartRetry ==
    /\ upAgents = <<>>
    /\ upSessions = [a \in Agents |-> <<>>]
    /\ upLogs = [a \in Agents |-> <<>>]
    /\ pc = "retry"
    /\ InitDb /\ InitCycle /\ InitAsm /\ InitJob /\ InitLoop /\ InitFault
    /\ InitMore
    /\ \E maxRetries \in 0 .. MaxAttempts :
           retry = [RetryIdle EXCEPT !.at = "start",
                                     !.maxRetries = maxRetries]

SpecRetry == InitStartRetry /\ [][RetryNext]_vars

\* ------------------------------------------------- two agents, fixed upstream
\* Either agent a1 has both sessions and a2 none, or each agent has one; the
\* agents' logs hold a snapshot of each of their sessions.
InitTwoAgents ==
    /\ upAgents = <<"a1", "a2">>
    /\ \/ /\ upSessions =
                 ("a1" :> (("s1" :> Horizon) @@ ("s2" :> Horizon)))
                 @@ ("a2" :> <<>>)
          /\ upLogs =
                 ("a1" :> <<LogEntry(Horizon + 1,
                                     ContextLog("s1", TRUE, Body1)),
                            LogEntry(Horizon,
                                     ContextLog("s2", FALSE, Body2))>>)
                 @@ ("a2" :> <<LogEntry(Horizon, OtherLog)>>)
       \/ /\ upSessions = ("a1" :> ("s1" :> Horizon))
                          @@ ("a2" :> ("s2" :> Horizon))
          /\ upLogs =
                 ("a1" :> <<LogEntry(Horizon + 1,
                                     ContextLog("s1", TRUE, Body1))>>)
                 @@ ("a2" :> <<LogEntry(Horizon,
                                        ContextLog("s2", FALSE, Body2))>>)
    /\ pc = "idle"
    /\ InitDb /\ InitCycle /\ InitAsm /\ InitMore /\ InitOff

\* The realtime cycle with failing upstream requests and store operations.
SpecFaults == InitTwoAgents /\ [][Cycle \/ Faults]_vars

\* The realtime cycle with process terminations.
SpecCrash == InitTwoAgents /\ [][Cycle \/ Crash]_vars

\* ------------------------------------------------------------ SyncJob alone
\* One SyncJob instance and the calls of run() still to come.
InitStartJob ==
    /\ upAgents = <<>>
    /\ upSessions = [a \in Agents |-> <<>>]
    /\ upLogs = [a \in Agents |-> <<>>]
    /\ pc = "job"
    /\ InitDb /\ InitCycle /\ InitAsm /\ InitRetry /\ InitLoop /\ InitFault
    /\ InitMore
    /\ job = JobIdle
    /\ runs = [c \in Calls |-> NewRun]

SpecJob == InitStartJob /\ [][JobNext]_vars

\* The realtime cycle and the job, each under failures of its steps.
SpecIsolation ==
    (InitTwoAgents \/ InitStartJob) /\ [][Cycle \/ Faults \/ JobNext]_vars

\* ----------------------------------------------------- continuous loop alone
\* main of either variant has called runSyncCycle for the first time (line
\* 419, line 815).
InitStartLoop ==
    /\ upAgents = <<>>
    /\ upSessions = [a \in Agents |-> <<>>]
    /\ upLogs = [a \in Agents |-> <<>>]
    /\ pc = "loop"
    /\ InitDb /\ InitCycle /\ InitAsm /\ InitRetry /\ InitJob /\ InitFault
    /\ InitMore
    /\ \E variant \in {"setTimeout", "setInterval"} :
           loop = [LoopIdle EXCEPT
                      !.variant = variant,
                      !.cycles = <<[step |-> 1, by |-> "main"]>>,
                      !.started = 1]

SpecLoop == InitStartLoop /\ [][LoopNext]_vars

\* The event loop runs a timer that is due, and every await of a cycle
\* settles (the upstream requests time out after 30 s, pipecat.js line 16).
SpecLoopLive == SpecLoop /\ WF_vars(LoopNext)

\* ----------------------------------------------------------- sanitizer alone
\* User messages of the shape the retrieval layer produces: optional leading
\* text, the marker, block text, a fenced json block, a trailing question.
LeadTexts == {<<>>, <<"Q">>, <<"Q", "SP">>}
BlockTexts == SeqsUpTo({"Q", "NL", "SP"}, MaxBlock)
FencedBlocks == {<<"F", "J", "Q", "F">>, <<"F", "J", "NL", "Q", "NL", "F">>}
Gaps == {<<>>, <<"SP">>, <<"NL">>, <<"NL", "NL">>}
Questions == {<<"Q">>, <<"Q", "SP", "Q">>}

ShapedMessages ==
    {lead \o <<"MARK">> \o block \o fenced \o gap \o question :
        lead \in LeadTexts, block \in BlockTexts, fenced \in FencedBlocks,
        gap \in Gaps, question \in Questions}

PlainMessages == SeqsUpTo(Tokens \ {"MARK"}, MaxBlock)

\* cleanUserMessage(msg) is called and returns.
CleanMessage ==
    /\ pc = "sanitizer"
    /\ ~sanitizer.done
    /\ sanitizer' = [sanitizer EXCEPT
                        !.out = cleanUserMessage(sanitizer.msg),
                        !.done = TRUE]
    /\ UNCHANGED <<envVars, dbVars, pc, agents, agentIdx, scanVars, convIdx,
                   pending, histVars, stableRuns, asmVars, subVars, fault,
                   parser, logSync, fanOut, proc, svc>>

InitSanitizer ==
    /\ upAgents = <<>>
    /\ upSessions = [a \in Agents |-> <<>>]
    /\ upLogs = [a \in Agents |-> <<>>]
    /\ pc = "sanitizer"
    /\ InitDb /\ InitCycle /\ InitAsm /\ InitOff /\ InitParserIdle
    /\ InitLogSyncIdle /\ InitFanOutIdle /\ InitProcIdle /\ InitSvcIdle
    /\ \E msg \in ShapedMessages \cup PlainMessages :
           sanitizer = [CleanIdle EXCEPT !.msg = msg]

SpecSanitizer == InitSanitizer /\ [][CleanMessage]_vars

\* -------------------------------------------------- log fragment parser (4.1)
\* A log line is a sequence of characters; positions are counted from 0 as
\* in the code.
SQ == "'"
DQ == "\""
BS == "\\"
NL == "\n"

\* The literals the code searches for.
ContextOpen == <<"c", "o", "n", "t", "e", "x", "t", " ", "[">>
RoleUser ==
    <<SQ, "r", "o", "l", "e", SQ, ":", " ", SQ, "u", "s", "e", "r", SQ>>
RoleAssistant ==
    <<SQ, "r", "o", "l", "e", SQ, ":", " ",
      SQ, "a", "s", "s", "i", "s", "t", "a", "n", "t", SQ>>
ContentKey == <<SQ, "c", "o", "n", "t", "e", "n", "t", SQ, ":", " ">>
ContentSingle == ContentKey \o <<SQ>>
ContentDouble == ContentKey \o <<DQ>>

\* String.prototype.indexOf(pat, from)
IndexOf(text, pat, from) ==
    LET hits == {p \in Max({from, 0}) .. Len(text) - Len(pat) :
                    SubSeq(text, p + 1, p + Len(pat)) = pat}
    IN  IF hits = {} THEN 0 - 1 ELSE Min(hits)

\* String.prototype.substring(a, b)
Substring(text, a, b) == SubSeq(text, a + 1, Min({b, Len(text)}))

\* String.prototype.startsWith(pat)
StartsWith(text, pat) ==
    Len(text) >= Len(pat) /\ SubSeq(text, 1, Len(pat)) = pat

\* String.prototype.replace(/pat/g, rep) for a literal pattern.
RECURSIVE ReplaceAll(_, _, _)
ReplaceAll(text, pat, rep) ==
    IF text = <<>> THEN <<>>
    ELSE IF StartsWith(text, pat)
    THEN rep \o ReplaceAll(SubSeq(text, Len(pat) + 1, Len(text)), pat, rep)
    ELSE <<Head(text)>> \o ReplaceAll(Tail(text), pat, rep)

\* Line 147: logMessage.match(/context \[(.+)\]$/s): the text between the
\* first 'context [' and the closing bracket that ends the line; <<FALSE, _>>
\* when there is no match.
ArrayMatch(logMessage) ==
    LET open == IndexOf(logMessage, ContextOpen, 0)
        from == open + Len(ContextOpen)
    IN  IF /\ open # 0 - 1
           /\ logMessage[Len(logMessage)] = "]"
           /\ Len(logMessage) - 1 > from
        THEN <<TRUE, Substring(logMessage, from, Len(logMessage) - 1)>>
        ELSE <<FALSE, <<>>>>

\* Lines 155-167: the nearest role marker at or after pos.
LocateMessage(arrayContent, pos) ==
    LET userMatch == IndexOf(arrayContent, RoleUser, pos)
        assistantMatch == IndexOf(arrayContent, RoleAssistant, pos)
    IN  IF userMatch # 0 - 1 /\
           (assistantMatch = 0 - 1 \/ userMatch < assistantMatch)
        THEN [nextMsgPos |-> userMatch, type |-> "user"]
        ELSE IF assistantMatch # 0 - 1
        THEN [nextMsgPos |-> assistantMatch, type |-> "assistant"]
        ELSE [nextMsgPos |-> 0 - 1, type |-> ""]

\* Lines 171-179: the content marker after the role marker and its quote.
LocateContent(arrayContent, nextMsgPos) ==
    LET contentStart == IndexOf(arrayContent, ContentSingle, nextMsgPos)
        doubleQuoteStart == IndexOf(arrayContent, ContentDouble, nextMsgPos)
    IN  IF contentStart = 0 - 1 \/
           (doubleQuoteStart # 0 - 1 /\ doubleQuoteStart < contentStart)
        THEN [contentStart |-> doubleQuoteStart, quoteChar |-> DQ]
        ELSE [contentStart |-> contentStart, quoteChar |-> SQ]

\* Variant: only the closing brace is a terminator.
IsTerminatorBraceOnly(after) == StartsWith(after, <<"}">>)

\* Line 199: the lookahead test after an unescaped quote.
IsTerminator(after) ==
    \/ StartsWith(after, <<"}">>)
    \/ StartsWith(after, <<",", " ">>)
    \/ StartsWith(after, <<"}", NL>>)
    \/ StartsWith(after, <<"}", ",">>)

\* Variant: the escape sequences are left as they are.
UnescapeNothing(text) == text

\* Lines 207-209: the three replaces, in this order.
Unescape(text) ==
    ReplaceAll(ReplaceAll(ReplaceAll(text, <<BS, SQ>>, <<SQ>>),
                          <<BS, DQ>>, <<DQ>>),
               <<BS, "n">>, <<NL>>)

\* Variant: the cursor is left on the role marker.
SkipRoleMarkerStays(nextMsgPos) == nextMsgPos

\* Lines 181-184: a role marker without a content marker after it is
\* skipped, pos = nextMsgPos + 10.
SkipRoleMarker(nextMsgPos) == nextMsgPos + 10

\* Where the inner while loop of line 191 stands with contentEnd at ce.
ScanOrPush(arrayContent, ce) ==
    IF ce < Len(arrayContent) THEN "scan" ELSE "push"

ParserVarsUnchanged ==
    UNCHANGED <<envVars, dbVars, pc, agents, agentIdx, scanVars, convIdx,
                pending, histVars, stableRuns, asmVars, subVars, fault,
                sanitizer, logSync, fanOut, proc, svc>>

\* Lines 147-152: the array text is cut out of the log line.
ParserMatch ==
    /\ pc = "parser"
    /\ parser.at = "match"
    /\ LET arrayMatch == ArrayMatch(parser.logMessage)
       IN  parser' = IF arrayMatch[1]
                     THEN [parser EXCEPT !.arrayContent = arrayMatch[2],
                                         !.pos = 0, !.at = "loop"]
                     ELSE [parser EXCEPT !.at = "done"]
    /\ ParserVarsUnchanged

\* Lines 154-189: the loop test, the next role marker and its content
\* marker.
ParserLocate ==
    /\ pc = "parser"
    /\ parser.at = "loop"
    /\ LET arrayContent == parser.arrayContent
           msg == LocateMessage(arrayContent, parser.pos)
           c == LocateContent(arrayContent, msg.nextMsgPos)
           contentValueStart ==
               c.contentStart + Len(<<" ">> \o ContentSingle) - 1
       IN  parser' =
               IF ~(parser.pos < Len(arrayContent)) THEN
                   [parser EXCEPT !.at = "done"]
               ELSE IF msg.nextMsgPos = 0 - 1 THEN
                   [parser EXCEPT !.at = "done"]
               ELSE IF c.contentStart = 0 - 1 THEN
                   [parser EXCEPT !.pos = SkipRoleMarker(msg.nextMsgPos)]
               ELSE
                   [parser EXCEPT
                       !.type = msg.type,
                       !.quoteChar = c.quoteChar,
                       !.contentValueStart = contentValueStart,
                       !.contentEnd = contentValueStart,
                       !.escaped = FALSE,
                       !.at = ScanOrPush(arrayContent, contentValueStart)]
    /\ ParserVarsUnchanged

\* Lines 191-203: one character of the content scan.
ParserScanChar ==
    /\ pc = "parser"
    /\ parser.at = "scan"
    /\ LET arrayContent == parser.arrayContent
           contentEnd == parser.contentEnd
           char == arrayContent[contentEnd + 1]
           after == Substring(arrayContent, contentEnd + 1, contentEnd + 3)
           goOn(escaped) ==
               [parser EXCEPT
                   !.escaped = escaped,
                   !.contentEnd = contentEnd + 1,
                   !.at = ScanOrPush(arrayContent, contentEnd + 1)]
       IN  parser' =
               IF parser.escaped THEN goOn(FALSE)
               ELSE IF char = BS THEN goOn(TRUE)
               ELSE IF char = parser.quoteChar /\ IsTerminator(after)
               THEN [parser EXCEPT !.at = "push"]
               ELSE goOn(FALSE)
    /\ ParserVarsUnchanged

\* Lines 206-212: the content is unescaped and pushed, the cursor moves
\* past it.
ParserPush ==
    /\ pc = "parser"
    /\ parser.at = "push"
    /\ LET content ==
               Unescape(Substring(parser.arrayContent,
                                  parser.contentValueStart,
                                  parser.contentEnd))
       IN  parser' =
               [parser EXCEPT
                   !.messages =
                       Append(@, [role |-> parser.type, content |-> content]),
                   !.pos = parser.contentEnd + 1,
                   !.at = "loop"]
    /\ ParserVarsUnchanged

ParserNext == ParserMatch \/ ParserLocate \/ ParserScanChar \/ ParserPush

\* ------------------------------------------------------------- parser alone
\* How the upstream writes a message list into a log line: the repr of a
\* list of dicts.  A content is written between single quotes with its
\* apostrophes escaped ("single") or left as they are ("raw"), or between
\* double quotes with its double quotes escaped ("double"); a newline is
\* written as backslash n.
RoleSystem ==
    <<SQ, "r", "o", "l", "e", SQ, ":", " ",
      SQ, "s", "y", "s", "t", "e", "m", SQ>>

RECURSIVE Encode(_, _)
Encode(content, style) ==
    IF content = <<>> THEN <<>>
    ELSE LET c == Head(content)
             out == IF c = NL THEN <<BS, "n">>
                    ELSE IF c = SQ /\ style = "single" THEN <<BS, SQ>>
                    ELSE IF c = DQ /\ style = "double" THEN <<BS, DQ>>
                    ELSE <<c>>
         IN  out \o Encode(Tail(content), style)

EntryText(e) ==
    LET q == IF e.style = "double" THEN DQ ELSE SQ
        role == CASE e.role = "user" -> RoleUser
                  [] e.role = "assistant" -> RoleAssistant
                  [] OTHER -> RoleSystem
    IN  <<"{">> \o role \o <<",", " ">> \o ContentKey \o <<q>>
            \o Encode(e.content, e.style) \o <<q, "}">>

RECURSIVE ArrayText(_)
ArrayText(entries) ==
    IF entries = <<>> THEN <<>>
    ELSE IF Len(entries) = 1 THEN EntryText(entries[1])
    ELSE EntryText(entries[1]) \o <<",", " ">> \o ArrayText(Tail(entries))

LogLine(arrayText) == <<"x", " ">> \o ContextOpen \o arrayText \o <<"]">>

\* Entries of a well-formed array: contents with an apostrophe that no
\* terminator pattern follows, with escaped quotes, with a newline, empty.
WellFormedEntries ==
    {[role |-> "user", content |-> <<"I", SQ, "m">>, style |-> "raw"],
     [role |-> "user", content |-> <<"I", SQ, "m">>, style |-> "double"],
     [role |-> "user", content |-> <<"a", SQ, "}">>, style |-> "single"],
     [role |-> "user", content |-> <<"a", SQ>>, style |-> "raw"],
     [role |-> "assistant", content |-> <<DQ, "a", DQ, ",", " ">>,
      style |-> "double"],
     [role |-> "assistant", content |-> <<"a", NL>>, style |-> "single"],
     [role |-> "assistant", content |-> <<>>, style |-> "single"],
     [role |-> "system", content |-> <<"a">>, style |-> "single"]}

\* Any text after a role marker and a content marker.
TailChars == {SQ, DQ, BS, "}", ",", " ", NL, "a"}
ContentTexts ==
    {RoleUser \o <<",", " ">> \o marker \o tail :
        marker \in {ContentSingle, ContentDouble},
        tail \in SeqsUpTo(TailChars, MaxTail)}

\* Any text of role markers, content markers and other characters.
MarkerPieces ==
    {RoleUser, RoleAssistant, ContentSingle \o <<"a", SQ, "}">>,
     ContentDouble \o <<"a">>, <<"a">>}

RECURSIVE Flatten(_)
Flatten(pieces) ==
    IF pieces = <<>> THEN <<>> ELSE Head(pieces) \o Flatten(Tail(pieces))

MarkerTexts == {Flatten(ps) : ps \in SeqsUpTo(MarkerPieces, MaxMarkers)}

\* Log lines without a bracketed array at their end.
OtherLines == {<<>>, <<"a">>, ContextOpen \o <<"]">>, ContextOpen \o <<"a">>}

InitParser ==
    /\ upAgents = <<>>
    /\ upSessions = [a \in Agents |-> <<>>]
    /\ upLogs = [a \in Agents |-> <<>>]
    /\ pc = "parser"
    /\ InitDb /\ InitCycle /\ InitAsm /\ InitOff /\ InitClean
    /\ InitLogSyncIdle /\ InitFanOutIdle /\ InitProcIdle /\ InitSvcIdle
    /\ \/ \E entries \in SeqsUpTo(WellFormedEntries, MaxEntries) :
              parser = [ParserIdle EXCEPT
                           !.logMessage = LogLine(ArrayText(entries)),
                           !.entries = entries,
                           !.wellFormed = TRUE,
                           !.at = "match"]
       \/ \E text \in ContentTexts \cup MarkerTexts :
              parser = [ParserIdle EXCEPT
                           !.logMessage = LogLine(text), !.at = "match"]
       \/ \E line \in OtherLines :
              parser = [ParserIdle EXCEPT
                           !.logMessage = line, !.at = "match"]

SpecParser == InitParser /\ [][ParserNext]_vars

\* The scan goes on as long as it can.
SpecParserLive == SpecParser /\ WF_vars(ParserNext)

\* ------------------------------------------- syncLogsOnly (sync-logs-only.js)
\* The sessions are numbered from 0 as in the sessions array; a session is
\* "waiting" until its syncLogsForSession call is made, "running" while the
\* call is in progress, then "resolved" or "rejected".
\* Variant: the slice runs to the end of the array.
BatchToEnd(i, n) == i .. n - 1

\* Line 34: sessions.slice(i, i + batchSize), as indices.
Batch(i, n) == i .. Min({i + batchSize, n}) - 1

FanVarsUnchanged ==
    UNCHANGED <<envVars, dbVars, pc, agents, agentIdx, scanVars, convIdx,
                pending, histVars, stableRuns, asmVars, subVars, fault,
                sanitizer, parser, logSync, proc, svc>>

\* Lines 33-54: the loop test, the slice, and batch.map, which calls
\* syncLogsForSession for every session of the batch before the first await.
FanStartBatch ==
    /\ pc = "fanout"
    /\ fanOut.at = "loop"
    /\ fanOut.i < fanOut.sessions
    /\ LET batch == Batch(fanOut.i, fanOut.sessions)
       IN  fanOut' =
               [fanOut EXCEPT
                   !.at = "await",
                   !.status = [k \in DOMAIN @ |->
                                  IF k \in batch THEN "running" ELSE @[k]],
                   !.started = [k \in DOMAIN @ |->
                                   IF k \in batch THEN @[k] + 1 ELSE @[k]]]
    /\ FanVarsUnchanged

\* Lines 39-49: the call of one session resolves; completed++.
FanSessionResolves ==
    /\ pc = "fanout"
    /\ \E k \in DOMAIN fanOut.status :
           /\ fanOut.status[k] = "running"
           /\ fanOut' = [fanOut EXCEPT !.status[k] = "resolved",
                                       !.completed = @ + 1]
    /\ FanVarsUnchanged

\* Lines 50-53: the call of one session rejects; the catch turns it into
\* the result { inserted: 0, skipped: 0, failed: 1 }.
FanSessionRejects ==
    /\ pc = "fanout"
    /\ \E k \in DOMAIN fanOut.status :
           /\ fanOut.status[k] = "running"
           /\ fanOut' = [fanOut EXCEPT !.status[k] = "rejected"]
    /\ FanVarsUnchanged

\* Lines 56-72: Promise.all resolves, the totals are updated, and the loop
\* pauses when more sessions are left.
FanBatchSettles ==
    /\ pc = "fanout"
    /\ fanOut.at = "await"
    /\ LET batch == Batch(fanOut.i, fanOut.sessions)
           failed == {k \in batch : fanOut.status[k] = "rejected"}
       IN  /\ \A k \in batch : fanOut.status[k] # "running"
           /\ fanOut' =
                  [fanOut EXCEPT
                      !.totalFailed = @ + Cardinality(failed),
                      !.batches = @ + 1,
                      !.at = IF fanOut.i + batchSize < fanOut.sessions
                             THEN "pause" ELSE "loop",
                      !.i = IF fanOut.i + batchSize < fanOut.sessions
                            THEN @ ELSE @ + batchSize]
    /\ FanVarsUnchanged

\* Lines 71, 33: the pause ends; i += batchSize.
FanPauseEnds ==
    /\ pc = "fanout"
    /\ fanOut.at = "pause"
    /\ fanOut' = [fanOut EXCEPT !.at = "loop", !.i = @ + batchSize]
    /\ FanVarsUnchanged

\* Lines 33, 75-88: the loop is left and the summary is written.
FanFinish ==
    /\ pc = "fanout"
    /\ fanOut.at = "loop"
    /\ ~(fanOut.i < fanOut.sessions)
    /\ fanOut' = [fanOut EXCEPT !.at = "done"]
    /\ FanVarsUnchanged

FanNext ==
    \/ FanStartBatch
    \/ FanSessionResolves
    \/ FanSessionRejects
    \/ FanBatchSettles
    \/ FanPauseEnds
    \/ FanFinish

\* Line 22 has returned the stored sessions; the loop of line 33 starts.
InitFanOut ==
    /\ upAgents = <<>>
    /\ upSessions = [a \in Agents |-> <<>>]
    /\ upLogs = [a \in Agents |-> <<>>]
    /\ pc = "fanout"
    /\ InitDb /\ InitCycle /\ InitAsm /\ InitOff
    /\ InitClean /\ InitParserIdle /\ InitLogSyncIdle /\ InitProcIdle
    /\ InitSvcIdle
    /\ \E n \in 0 .. MaxSessions :
           fanOut = [FanOutIdle EXCEPT
                        !.at = "loop",
                        !.sessions = n,
                        !.status = [k \in 0 .. n - 1 |-> "waiting"],
                        !.started = [k \in 0 .. n - 1 |-> 0]]

SpecFanOut == InitFanOut /\ [][FanNext]_vars

\* ------------------------------------ LogService (services/log.service.js)
\* An upstream log entry is { timestamp, log }; either field may be missing
\* (NoTime, ""). Math.random gives the tail of a fallback id.
Randoms == {"r1", "r2"}

\* Lines 16-20: the first 8 hex digits of the md5 of the log text.
LogHash(log) == IF log = "m1" THEN "h1" ELSE "h2"

\* Lines 23-26: the timestamp without punctuation, cut after the seconds.
CleanTimestamp(timestamp) == timestamp \div TicksPerSecond

\* Lines 11-33: log_<sessionId>_<cleanTimestamp>_<hash>, or the fallback
\* log_<sessionId>_<index>_<random>.
extractLogId(logData, sessionId, index, random) ==
    IF logData.timestamp # NoTime /\ logData.log # ""
    THEN [session |-> sessionId,
          stamp |-> CleanTimestamp(logData.timestamp),
          index |-> 0 - 1, tail |-> LogHash(logData.log)]
    ELSE [session |-> sessionId, stamp |-> 0 - 1,
          index |-> index, tail |-> random]

\* Lines 160-175: the document of a log; parseDate(timestamp) || new Date().
LogDoc(logData, sessionId, index, random, now) ==
    [log_id |-> extractLogId(logData, sessionId, index, random),
     session_id |-> sessionId,
     timestamp |-> IF logData.timestamp # NoTime
                   THEN logData.timestamp ELSE now,
     original_log |-> logData.log]

\* Lines 177-183: updateOne with filter { log_id }, $setOnInsert and upsert:
\* a document is added when none has the id, and nothing else happens.
UpsertLog(coll, doc) ==
    IF \E n \in 1 .. Len(coll) : coll[n].log_id = doc.log_id
    THEN coll ELSE Append(coll, doc)

\* Lines 147-191: the operations of one batch, applied to the collection.
RECURSIVE bulkInsertLogs(_, _, _, _, _, _, _)
bulkInsertLogs(coll, sessionId, logs, startIndex, randoms, now, n) ==
    IF n > Len(logs) THEN coll
    ELSE bulkInsertLogs(
             UpsertLog(coll, LogDoc(logs[n], sessionId, startIndex + n - 1,
                                    randoms[n], now)),
             sessionId, logs, startIndex, randoms, now, n + 1)

\* Lines 314-321: the timestamp of the latest stored log of the session, or
\* null.
getLatestLogTimestamp(coll, sessionId) ==
    LET stamps == {coll[n].timestamp : n \in
                      {m \in 1 .. Len(coll) : coll[m].session_id = sessionId}}
    IN  IF stamps = {} THEN NoTime ELSE Max(stamps)

\* Variant: every fetched log is processed again.
IsNewAlways(timestamp, startTime) == TRUE

\* Lines 104-107: logTime > startTime, false for a missing timestamp.
IsNew(timestamp, startTime) == timestamp # NoTime /\ timestamp > startTime

\* Lines 102-109: the logs to process.
LogsToProcess(logs, startTime) ==
    IF startTime = NoTime THEN logs
    ELSE SelectSeq(logs, LAMBDA log : IsNew(log.timestamp, startTime))

LogSyncVarsUnchanged ==
    UNCHANGED <<envVars, dbVars, pc, agents, agentIdx, scanVars, convIdx,
                pending, histVars, stableRuns, asmVars, subVars, fault,
                sanitizer, parser, fanOut, proc, svc>>

\* Lines 78-90: syncLogsForSession is called in incremental mode and reads
\* the latest stored timestamp.
LogSyncStart ==
    /\ pc = "logsync"
    /\ logSync.at \in {"idle", "done"}
    /\ logSync.run < MaxRuns
    /\ \E now \in {t \in Times : t >= logSync.now} :
           logSync' =
               [logSync EXCEPT
                   !.at = "fetch",
                   !.run = @ + 1,
                   !.now = now,
                   !.before = logSync.Log,
                   !.startTime =
                       getLatestLogTimestamp(logSync.Log, logSync.sessionId),
                   !.inserted = 0,
                   !.skipped = 0]
    /\ LogSyncVarsUnchanged

\* Lines 94-109: the logs of the session are fetched and filtered.
LogSyncFetch ==
    /\ pc = "logsync"
    /\ logSync.at = "fetch"
    /\ logSync' =
           [logSync EXCEPT
               !.at = "insert",
               !.i = 0,
               !.logsToProcess =
                   LogsToProcess(logSync.upstream, logSync.startTime)]
    /\ LogSyncVarsUnchanged

\* Lines 118-124: one batch goes through bulkInsertLogs.
LogSyncInsert ==
    /\ pc = "logsync"
    /\ logSync.at = "insert"
    /\ logSync.i < Len(logSync.logsToProcess)
    /\ LET i == logSync.i
           batch == SubSeq(logSync.logsToProcess, i + 1,
                           Min({i + SYNC_BATCH_SIZE,
                                Len(logSync.logsToProcess)}))
       IN  \E randoms \in [1 .. Len(batch) -> Randoms] :
               LET coll == bulkInsertLogs(logSync.Log, logSync.sessionId,
                                          batch, i, randoms, logSync.now, 1)
                   upsertedCount == Len(coll) - Len(logSync.Log)
               IN  logSync' =
                       [logSync EXCEPT
                           !.Log = coll,
                           !.inserted = @ + upsertedCount,
                           !.skipped = @ + Len(batch) - upsertedCount,
                           !.i = i + SYNC_BATCH_SIZE]
    /\ LogSyncVarsUnchanged

\* Lines 118, 131-132: the loop is left and the counts are returned.
LogSyncReturn ==
    /\ pc = "logsync"
    /\ logSync.at = "insert"
    /\ ~(logSync.i < Len(logSync.logsToProcess))
    /\ logSync' =
           [logSync EXCEPT
               !.at = "done",
               !.results = Append(@, [inserted |-> logSync.inserted,
                                      skipped |-> logSync.skipped])]
    /\ LogSyncVarsUnchanged

\* Lines 147-191 with only the operations of the logs at the positions in
\* ok applied: the others fail in the unordered bulk write and again in the
\* insertLog calls of insertLogsIndividually (lines 245-264).
RECURSIVE InsertSome(_, _, _, _, _, _, _, _)
InsertSome(coll, sessionId, logs, startIndex, randoms, now, ok, n) ==
    IF n > Len(logs) THEN coll
    ELSE InsertSome(
             IF n \in ok
             THEN UpsertLog(coll, LogDoc(logs[n], sessionId,
                                         startIndex + n - 1, randoms[n], now))
             ELSE coll,
             sessionId, logs, startIndex, randoms, now, ok, n + 1)

\* Lines 185-198 and 245-264: Log.bulkWrite rejects; the logs are inserted
\* one by one, and a log whose insertLog throws is counted as skipped.
LogSyncInsertFails ==
    /\ pc = "logsync"
    /\ logSync.at = "insert"
    /\ logSync.i < Len(logSync.logsToProcess)
    /\ LET i == logSync.i
           batch == SubSeq(logSync.logsToProcess, i + 1,
                           Min({i + SYNC_BATCH_SIZE,
                                Len(logSync.logsToProcess)}))
       IN  \E randoms \in [1 .. Len(batch) -> Randoms],
              ok \in SUBSET (1 .. Len(batch)) :
               /\ ok # 1 .. Len(batch)
               /\ LET coll == InsertSome(logSync.Log, logSync.sessionId,
                                         batch, i, randoms, logSync.now,
                                         ok, 1)
                      upsertedCount == Len(coll) - Len(logSync.Log)
                  IN  logSync' =
                          [logSync EXCEPT
                              !.Log = coll,
                              !.inserted = @ + upsertedCount,
                              !.skipped = @ + Len(batch) - upsertedCount,
                              !.failures =
                                  Append(@, [run |-> logSync.run,
                                             upserted |-> upsertedCount]),
                              !.i = i + SYNC_BATCH_SIZE]
    /\ LogSyncVarsUnchanged

LogSyncNext ==
    \/ LogSyncStart
    \/ LogSyncFetch
    \/ LogSyncInsert
    \/ LogSyncReturn

\* Upstream log entries of session s1: two ticks of one second or no
\* timestamp, two texts or none.
SessionLogEntries ==
    {[timestamp |-> t, log |-> m] :
        t \in {NoTime, TicksPerSecond, TicksPerSecond + 1},
        m \in {"", "m1", "m2"}}

\* The Log collection before the first run: empty, or with the record of
\* one log of the session (one with a timestamp and a text) from an earlier
\* sync.
StoredBefore ==
    {<<>>} \cup
    {<<LogDoc(e, "s1", 0, "r1", 0)>> :
        e \in {x \in SessionLogEntries :
                   x.log = "m1" /\ x.timestamp # NoTime}}

InitLogSync ==
    /\ upAgents = <<>>
    /\ upSessions = [a \in Agents |-> <<>>]
    /\ upLogs = [a \in Agents |-> <<>>]
    /\ pc = "logsync"
    /\ InitDb /\ InitCycle /\ InitAsm /\ InitOff
    /\ InitClean /\ InitParserIdle /\ InitFanOutIdle /\ InitProcIdle
    /\ InitSvcIdle
    /\ \E logs \in SeqsUpTo(SessionLogEntries, MaxSessionLogs),
          stored \in StoredBefore :
           logSync = [LogSyncIdle EXCEPT
                         !.at = "idle",
                         !.sessionId = "s1",
                         !.upstream = logs,
                         !.Log = stored]

SpecLogSync == InitLogSync /\ [][LogSyncNext]_vars

\* The log sync with writes that fail.
SpecLogSyncFaults == InitLogSync /\ [][LogSyncNext \/ LogSyncInsertFails]_vars

\* ------------------- streaming LogService (log.service.js lines 330-702)
\* An upstream log entry has, besides timestamp and log, type (what the
\* filters of bulkInsertLogs make of its text: "question", "response" or
\* "none") and numeric (its timestamp is a number, not a string).

\* Lines 340-362 and 523: extractLogId calls logData.timestamp.replace,
\* which is no function of a number, so it throws for the first log that
\* passes the filters and has a numeric timestamp.
Throws(logs) ==
    \E n \in 1 .. Len(logs) :
        logs[n].type # "none" /\ logs[n].numeric
            /\ logs[n].timestamp # NoTime

\* Lines 476-549: the positions of the logs that get an operation.
Operations(logs) == {n \in 1 .. Len(logs) : logs[n].type # "none"}

\* Lines 446-449: catch (error) { failed += logsToProcess.length }
Caught(s, batchLogs, logsToProcess) ==
    [s EXCEPT !.failed = @ + Len(logsToProcess)]

\* Lines 441-445: inserted += result.inserted; skipped += result.skipped +
\* (batchLogs.length - logsToProcess.length)
Added(s, result, batchLogs, logsToProcess) ==
    [s EXCEPT !.inserted = @ + result.inserted,
              !.skipped = @ + result.skipped
                            + (Len(batchLogs) - Len(logsToProcess))]

\* pipecat.js lines 237-240 in getAllLogsForSession: the next page, or out
\* of the loop.
AfterBatch(s) ==
    IF MorePages(getAgentLogs(s.upstream, s.page, limit), limit)
    THEN [s EXCEPT !.at = "fetch", !.page = @ + 1]
    ELSE [s EXCEPT !.at = "return"]

\* Lines 407-420: the streaming syncLogsForSession is called in incremental
\* mode and reads the latest stored timestamp.
StreamStart ==
    /\ pc = "logstream"
    /\ logSync.at = "idle"
    /\ logSync' =
           [logSync EXCEPT
               !.at = "fetch",
               !.run = @ + 1,
               !.page = 1,
               !.startTime =
                   getLatestLogTimestamp(logSync.Log, logSync.sessionId)]
    /\ LogSyncVarsUnchanged

\* pipecat.js lines 219-227 and log.service.js lines 428-437: a page is
\* fetched and handed to processBatch, which counts and filters it.
StreamFetch ==
    /\ pc = "logstream"
    /\ logSync.at = "fetch"
    /\ LET logs == getAgentLogs(logSync.upstream, logSync.page, limit).data
       IN  logSync' =
               IF Len(logs) = 0 THEN [logSync EXCEPT !.at = "return"]
               ELSE [logSync EXCEPT
                        !.at = "process",
                        !.batch = logs,
                        !.totalFetched = @ + Len(logs),
                        !.logsToProcess =
                            LogsToProcess(logs, logSync.startTime)]
    /\ LogSyncVarsUnchanged

\* Lines 439-442: no log of the page is new.
StreamSkipsAll ==
    /\ pc = "logstream"
    /\ logSync.at = "process"
    /\ Len(logSync.logsToProcess) = 0
    /\ logSync' =
           AfterBatch([logSync EXCEPT !.skipped = @ + Len(logSync.batch)])
    /\ LogSyncVarsUnchanged

\* Lines 444-454: bulkInsertLogs throws before it writes.
StreamThrows ==
    /\ pc = "logstream"
    /\ logSync.at = "process"
    /\ Len(logSync.logsToProcess) > 0
    /\ Throws(logSync.logsToProcess)
    /\ logSync' =
           AfterBatch(Caught(logSync, logSync.batch, logSync.logsToProcess))
    /\ LogSyncVarsUnchanged

\* Lines 550-569: bulkInsertLogs has no operation and returns, or its
\* bulkWrite resolves with upsertedCount.
StreamWrites ==
    /\ pc = "logstream"
    /\ logSync.at = "process"
    /\ Len(logSync.logsToProcess) > 0
    /\ ~Throws(logSync.logsToProcess)
    /\ LET logs == logSync.logsToProcess
           operations == Operations(logs)
           skippedCount == Len(logs) - Cardinality(operations)
       IN  \E randoms \in [1 .. Len(logs) -> Randoms] :
               LET coll == InsertSome(logSync.Log, logSync.sessionId, logs,
                                      (logSync.page - 1) * limit, randoms,
                                      logSync.now, operations, 1)
                   upsertedCount == Len(coll) - Len(logSync.Log)
                   result ==
                       IF operations = {}
                       THEN [inserted |-> 0, skipped |-> Len(logs)]
                       ELSE [inserted |-> upsertedCount,
                             skipped |-> skippedCount
                                 + (Cardinality(operations) - upsertedCount)]
               IN  logSync' =
                       AfterBatch(Added([logSync EXCEPT !.Log = coll], result,
                                        logSync.batch, logs))
    /\ LogSyncVarsUnchanged

\* Lines 571-577: bulkWrite rejects after it has applied some of the
\* operations; bulkInsertLogs returns { inserted: 0, skipped: logs.length }.
StreamWriteFails ==
    /\ pc = "logstream"
    /\ logSync.at = "process"
    /\ Len(logSync.logsToProcess) > 0
    /\ ~Throws(logSync.logsToProcess)
    /\ LET logs == logSync.logsToProcess
           operations == Operations(logs)
       IN  /\ operations # {}
           /\ \E randoms \in [1 .. Len(logs) -> Randoms],
                 ok \in SUBSET operations :
                  /\ ok # operations
                  /\ LET coll == InsertSome(logSync.Log, logSync.sessionId,
                                            logs, (logSync.page - 1) * limit,
                                            randoms, logSync.now, ok, 1)
                         result == [inserted |-> 0, skipped |-> Len(logs)]
                     IN  logSync' =
                             AfterBatch(Added([logSync EXCEPT !.Log = coll],
                                              result, logSync.batch, logs))
    /\ LogSyncVarsUnchanged

\* Lines 457-460: getAllLogsForSession is back, the counts are returned.
StreamReturn ==
    /\ pc = "logstream"
    /\ logSync.at = "return"
    /\ logSync' =
           [logSync EXCEPT
               !.at = "done",
               !.results = Append(@, [inserted |-> logSync.inserted,
                                      skipped |-> logSync.skipped,
                                      failed |-> logSync.failed,
                                      total |-> logSync.totalFetched])]
    /\ LogSyncVarsUnchanged

StreamNext ==
    \/ StreamStart
    \/ StreamFetch
    \/ StreamSkipsAll
    \/ StreamThrows
    \/ StreamWrites
    \/ StreamWriteFails
    \/ StreamReturn

\* Upstream log entries of session s1 for the streaming sync.
StreamEntries ==
    {[timestamp |-> t, log |-> "m1", type |-> ty, numeric |-> num] :
        t \in {NoTime, TicksPerSecond, TicksPerSecond + 1},
        ty \in {"question", "none"}, num \in BOOLEAN}

InitLogStream ==
    /\ upAgents = <<>>
    /\ upSessions = [a \in Agents |-> <<>>]
    /\ upLogs = [a \in Agents |-> <<>>]
    /\ pc = "logstream"
    /\ InitDb /\ InitCycle /\ InitAsm /\ InitOff
    /\ InitClean /\ InitParserIdle /\ InitFanOutIdle /\ InitProcIdle
    /\ InitSvcIdle
    /\ \E logs \in SeqsUpTo({e \in StreamEntries :
                                 e.numeric => e.timestamp # NoTime},
                             MaxStreamLogs),
          stored \in StoredBefore :
           logSync = [LogSyncIdle EXCEPT
                         !.at = "idle",
                         !.sessionId = "s1",
                         !.upstream = logs,
                         !.Log = stored]

SpecLogStream == InitLogStream /\ [][StreamNext]_vars

\* ------------------------------------------------------ shutdown on signals
\* The process of the realtime script (scripts/sync-realtime.js) or of the
\* Application. proc.db is the persistence connection ("open", "closing"
\* while sequelize.close or mongoose.disconnect is in progress, "closed"),
\* proc.client the upstream client, proc.handlers the handlers waiting for
\* the disconnect, proc.log what was called, in order.
ProcVarsUnchanged ==
    UNCHANGED <<envVars, dbVars, pc, agents, agentIdx, scanVars, convIdx,
                pending, histVars, stableRuns, asmVars, subVars, fault,
                sanitizer, parser, logSync, fanOut, svc>>

\* sequelize.close() / mongoose.disconnect() is called.
Disconnecting(db) == IF db = "open" THEN "closing" ELSE db

\* A signal or an error event can be delivered.
Delivers ==
    /\ pc = "proc"
    /\ ~proc.exited
    /\ proc.signals < MaxSignals

\* The process state p after the delivery of a signal or error event.
Received(p, signal) ==
    [p EXCEPT !.signals = @ + 1, !.log = Append(@, signal)]

\* sync-realtime.js lines 435-437: the SIGINT handler of the script up to
\* its await.
ScriptSigint ==
    /\ Delivers
    /\ proc.variant = "realtime"
    /\ proc' = [Received(proc, "SIGINT") EXCEPT
                   !.db = Disconnecting(@),
                   !.handlers = Append(@, "script"),
                   !.log = Append(@, "script.disconnect")]
    /\ ProcVarsUnchanged

\* The script registers no SIGTERM handler: the process is terminated.
ScriptSigterm ==
    /\ Delivers
    /\ proc.variant = "realtime"
    /\ proc' = [Received(proc, "SIGTERM") EXCEPT
                   !.exited = TRUE,
                   !.log = Append(@, "exit")]
    /\ ProcVarsUnchanged

\* retry.js line 96: if (this.shuttingDown) return.
ShutdownRuns(shuttingDown) == ~shuttingDown

\* retry.js lines 95-106: shutdown(signal) up to its await, on the process
\* state p.
Shutdown(p) ==
    IF ~ShutdownRuns(p.shuttingDown) THEN p
    ELSE [p EXCEPT
             !.shuttingDown = TRUE,
             !.cronTask = FALSE,
             !.db = Disconnecting(@),
             !.handlers = Append(@, "shutdown"),
             !.log = @ \o <<"cron.stop", "shutdown.disconnect">>]

\* db.js lines 35-36: the SIGINT handler that Database.connect registers,
\* up to its await.
DatabaseSigint(p) ==
    [p EXCEPT
        !.db = Disconnecting(@),
        !.handlers = Append(@, "database"),
        !.log = Append(@, "database.disconnect")]

\* SIGINT in the Application: the listeners run in the order they were
\* registered, db.connect (retry.js line 71) before setupGracefulShutdown
\* (line 78).
AppSigint ==
    /\ Delivers
    /\ proc.variant = "application"
    /\ proc' = Shutdown(DatabaseSigint(Received(proc, "SIGINT")))
    /\ ProcVarsUnchanged

\* retry.js line 116: SIGTERM in the Application.
AppSigterm ==
    /\ Delivers
    /\ proc.variant = "application"
    /\ proc' = Shutdown(Received(proc, "SIGTERM"))
    /\ ProcVarsUnchanged

\* retry.js lines 120-128: an uncaught exception or an unhandled rejection
\* in the Application.
AppUncaught ==
    /\ Delivers
    /\ proc.variant = "application"
    /\ proc' = Shutdown(Received(proc, "uncaughtException"))
    /\ ProcVarsUnchanged

\* A sync run starts: the timer of the script's loop, or the cron task of
\* the Application while it is not stopped.
SyncStarts ==
    /\ pc = "proc"
    /\ ~proc.exited
    /\ ~proc.syncing
    /\ proc.variant = "application" => proc.cronTask
    /\ proc' = [proc EXCEPT !.syncing = TRUE]
    /\ ProcVarsUnchanged

\* The sync run is over.
SyncEnds ==
    /\ pc = "proc"
    /\ ~proc.exited
    /\ proc.syncing
    /\ proc' = [proc EXCEPT !.syncing = FALSE]
    /\ ProcVarsUnchanged

\* The connection has been closed.
DbCloses ==
    /\ pc = "proc"
    /\ ~proc.exited
    /\ proc.db = "closing"
    /\ proc' = [proc EXCEPT !.db = "closed"]
    /\ ProcVarsUnchanged

\* sync-realtime.js line 438, db.js line 37, retry.js lines 108-109: a
\* handler goes on after its await and calls process.exit(0).
HandlerExits ==
    /\ pc = "proc"
    /\ ~proc.exited
    /\ proc.db = "closed"
    /\ proc.handlers # <<>>
    /\ proc' = [proc EXCEPT !.exited = TRUE, !.log = Append(@, "exit")]
    /\ ProcVarsUnchanged

ProcNext ==
    \/ ScriptSigint
    \/ ScriptSigterm
    \/ AppSigint
    \/ AppSigterm
    \/ AppUncaught
    \/ SyncStarts
    \/ SyncEnds
    \/ DbCloses
    \/ HandlerExits

\* The service is up: connected, client created, scheduler started.
InitShutdown ==
    /\ upAgents = <<>>
    /\ upSessions = [a \in Agents |-> <<>>]
    /\ upLogs = [a \in Agents |-> <<>>]
    /\ pc = "proc"
    /\ InitDb /\ InitCycle /\ InitAsm /\ InitOff
    /\ InitClean /\ InitParserIdle /\ InitLogSyncIdle /\ InitFanOutIdle
    /\ InitSvcIdle
    /\ \E variant \in {"realtime", "application"} :
           proc = [ProcIdle EXCEPT
                      !.variant = variant,
                      !.cronTask = variant = "application"]

SpecShutdown == InitShutdown /\ [][ProcNext]_vars

\* ------------------------- upsert loops (session.service.js, agent service)
SvcVarsUnchanged ==
    UNCHANGED <<envVars, dbVars, pc, agents, agentIdx, scanVars, convIdx,
                pending, histVars, stableRuns, asmVars, subVars, fault,
                sanitizer, parser, logSync, fanOut, proc>>

\* The codes an upsert can be rejected with: the duplicate key error,
\* another server error (50, the time limit), an error without a code (0).
ErrorCodes == {DuplicateKey, 50, 0}

\* Variant: no error is taken for a duplicate key error.
IsDuplicateNever(code) == FALSE

\* session.service.js line 131, agent service line 97: error.code === 11000
IsDuplicate(code) == code = DuplicateKey

\* Lines 127-128 (90-91): created: result.isNew, updated: !result.isNew.  The
\* document findOneAndUpdate resolves with is read from the collection, and
\* isNew is false on every document that comes from the collection.
UpsertResult(key) ==
    [key |-> key, thrown |-> FALSE, code |-> 0, success |-> TRUE,
     created |-> FALSE, updated |-> TRUE]

\* Lines 139 (104): the result after the update without upsert.
FallbackResult(key) ==
    [key |-> key, thrown |-> FALSE, code |-> 0, success |-> TRUE,
     created |-> FALSE, updated |-> TRUE]

Thrown(key, code) ==
    [key |-> key, thrown |-> TRUE, code |-> code, success |-> FALSE,
     created |-> FALSE, updated |-> FALSE]

\* Lines 62-64 (25-27): the counters after upsertSession returned result,
\* and the loop goes on.
Counted(s, result) ==
    [s EXCEPT !.created = IF result.created THEN @ + 1 ELSE @,
              !.updated = IF result.updated THEN @ + 1 ELSE @,
              !.results = Append(@, result),
              !.i = @ + 1, !.at = "loop", !.code = 0]

\* Lines 65-68 (28-31): the catch of the loop counts the item as failed,
\* and the loop goes on.
Failed(s, key, code) ==
    [s EXCEPT !.failed = @ + 1,
              !.results = Append(@, Thrown(key, code)),
              !.i = @ + 1, !.at = "loop", !.code = 0]

\* Lines 115-129 (78-94): findOneAndUpdate with upsert resolves.
SvcUpsertResolves ==
    /\ pc = "svc"
    /\ svc.at = "loop"
    /\ svc.i <= Len(svc.items)
    /\ LET key == svc.items[svc.i]
           issued == [svc EXCEPT
                         !.ops = Append(@, [op |-> "findOneAndUpdate",
                                            key |-> key, upsert |-> TRUE]),
                         !.store = @ \cup {key}]
       IN  svc' = Counted(issued, UpsertResult(key))
    /\ SvcVarsUnchanged

\* Lines 130-142 (96-106): findOneAndUpdate rejects.  A duplicate key error
\* (another writer has inserted the key in between) leads to the update
\* without upsert; any other error is thrown to the loop.
SvcUpsertRejects ==
    /\ pc = "svc"
    /\ svc.at = "loop"
    /\ svc.i <= Len(svc.items)
    /\ \E code \in ErrorCodes :
         LET key == svc.items[svc.i]
             issued == [svc EXCEPT
                           !.ops = Append(@, [op |-> "findOneAndUpdate",
                                              key |-> key, upsert |-> TRUE]),
                           !.store = IF code = DuplicateKey
                                     THEN @ \cup {key} ELSE @]
         IN  svc' = IF IsDuplicate(code)
                    THEN [issued EXCEPT !.at = "fallback", !.code = code]
                    ELSE Failed(issued, key, code)
    /\ SvcVarsUnchanged

\* Lines 134-139 (100-104): updateOne without upsert resolves, and the call
\* returns its result.
SvcFallbackResolves ==
    /\ pc = "svc"
    /\ svc.at = "fallback"
    /\ LET key == svc.items[svc.i]
           issued == [svc EXCEPT
                         !.ops = Append(@, [op |-> "updateOne", key |-> key,
                                            upsert |-> FALSE])]
       IN  svc' = Counted(issued, FallbackResult(key))
    /\ SvcVarsUnchanged

\* Lines 134-137 (100-103): updateOne rejects, the error leaves the catch
\* block and reaches the loop.
SvcFallbackRejects ==
    /\ pc = "svc"
    /\ svc.at = "fallback"
    /\ \E code \in ErrorCodes \ {DuplicateKey} :
         LET key == svc.items[svc.i]
             issued == [svc EXCEPT
                           !.ops = Append(@, [op |-> "updateOne",
                                              key |-> key,
                                              upsert |-> FALSE])]
         IN  svc' = Failed(issued, key, code)
    /\ SvcVarsUnchanged

\* Lines 71-72 (34-35): the loop is over, the counters are returned.
SvcReturn ==
    /\ pc = "svc"
    /\ svc.at = "loop"
    /\ svc.i > Len(svc.items)
    /\ svc' = [svc EXCEPT !.at = "done"]
    /\ SvcVarsUnchanged

SvcNext ==
    \/ SvcUpsertResolves
    \/ SvcUpsertRejects
    \/ SvcFallbackResolves
    \/ SvcFallbackRejects
    \/ SvcReturn

SvcKeys == {"k1", "k2"}

\* The sessions of an agent, or the agents, as fetched; the collection
\* holds any of the keys already.
InitUpsert ==
    /\ upAgents = <<>>
    /\ upSessions = [a \in Agents |-> <<>>]
    /\ upLogs = [a \in Agents |-> <<>>]
    /\ pc = "svc"
    /\ InitDb /\ InitCycle /\ InitAsm /\ InitOff
    /\ InitClean /\ InitParserIdle /\ InitLogSyncIdle /\ InitFanOutIdle
    /\ InitProcIdle
    /\ \E kind \in {"session", "agent"}, stored \in SUBSET SvcKeys,
          items \in SeqsUpTo(SvcKeys, MaxItems) :
           svc = [SvcIdle EXCEPT !.at = "loop", !.kind = kind,
                                 !.items = items, !.store = stored]

SpecUpsert == InitUpsert /\ [][SvcNext]_vars

\* ================================================================== claims
\* The candidates of session s among the entries handed to the selector.
CandidatesOf(a, s) == {c \in offered[a] : c.log.sessionId = s}

\* C1: whatever candidates of a session were observed, in whatever order,
\* the stored snapshot is universal iff some candidate is universal, and its
\* timestamp is the largest among the candidates of the stored kind.
C1_SelectorFinalResult ==
    \A s \in SessionIds :
        LET cs == CandidatesOf("a1", s)
        IN  IF cs = {} THEN s \notin DOMAIN sessionContexts.at
            ELSE /\ s \in DOMAIN sessionContexts.at
                 /\ LET stored == sessionContexts.at[s]
                        sameKind == {c \in cs :
                                        c.log.isUniversal = stored.isUniversal}
                    IN  /\ stored.isUniversal <=>
                               \E c \in cs : c.log.isUniversal
                        /\ sameKind # {}
                        /\ stored.time = Max({c.timestamp : c \in sameKind})

\* C1 witness: a model-specific candidate at t1 and universal candidates at
\* t0 < t1 < t2 were observed for s1, and universal@t2 is stored.
C1_Witness ==
    \E t0, t1, t2 \in Times :
        /\ t0 < t1 /\ t1 < t2
        /\ \E c \in CandidatesOf("a1", "s1") :
               ~c.log.isUniversal /\ c.timestamp = t1
        /\ \E c \in CandidatesOf("a1", "s1") :
               c.log.isUniversal /\ c.timestamp = t0
        /\ \E c \in CandidatesOf("a1", "s1") :
               c.log.isUniversal /\ c.timestamp = t2
        /\ "s1" \in DOMAIN sessionContexts.at
        /\ sessionContexts.at["s1"].isUniversal
        /\ sessionContexts.at["s1"].time = t2

\* The map entry a candidate makes.
AsStored(c) ==
    [log |-> c.log, time |-> c.timestamp, isUniversal |-> c.log.isUniversal]

\* C2: one observed candidate changes the entry of its session as the rule
\* table says and leaves every other session's entry alone.
C2_SelectorStepTable ==
    [][\A a \in Agents : \A c \in offered'[a] \ offered[a] :
          LET s == c.log.sessionId
              had == s \in DOMAIN sessionContexts.at
              e == sessionContexts.at[s]
              after == sessionContexts'.at
          IN  /\ s \in DOMAIN after
              /\ ~had => after[s] = AsStored(c)
              /\ (had /\ ~e.isUniversal /\ c.log.isUniversal)
                     => after[s] = AsStored(c)
              /\ (had /\ e.isUniversal /\ ~c.log.isUniversal)
                     => after[s] = e
              /\ (had /\ e.isUniversal = c.log.isUniversal)
                     => after[s] = IF c.timestamp > e.time
                                   THEN AsStored(c) ELSE e
              /\ \A o \in SessionIds \ {s} :
                     /\ o \in DOMAIN after <=> o \in DOMAIN sessionContexts.at
                     /\ o \in DOMAIN after => after[o] = sessionContexts.at[o]
      ]_vars

\* C2 witness: two candidates of one session, of the same kind and with the
\* same timestamp but different text, were observed while another session
\* has an entry too.
C2_Witness ==
    /\ DOMAIN sessionContexts.at = SessionIds
    /\ \E c1, c2 \in CandidatesOf("a1", "s1") :
           /\ c1 # c2
           /\ c1.timestamp = c2.timestamp
           /\ c1.log.isUniversal = c2.log.isUniversal

\* C3: when the assembler is done, the turn_id values of the returned turns
\* are exactly 1, 2, ..., n in order.
C3_TurnIdsSequential ==
    (pc = "assembler" /\ asm.i > Len(messages)) =>
        \A k \in 1 .. Len(asm.turns) : asm.turns[k].turn_id = k

\* The selected snapshot the convergence loop is at, and its turns.
AtConverge == pc = "converge" /\ convIdx <= Len(sessionContexts.order)
ConvSession == sessionContexts.order[convIdx]
ConvSelected == sessionContexts.at[ConvSession]
ConvTurns == parseContextLog(ConvSelected.log)

\* C4: in a cycle that starts after a finished cycle over the same upstream,
\* no step of the convergence writes: no Conversation row and no
\* conversation_count changes, and the write counter stays at zero.
C4_SecondRunWritesNothing ==
    [][(stableRuns >= 1 /\ pc # "idle") =>
          /\ dbConversations' = dbConversations
          /\ DOMAIN dbSessions' = DOMAIN dbSessions
          /\ \A s \in DOMAIN dbSessions :
                 dbSessions'[s].conversation_count =
                     dbSessions[s].conversation_count
          /\ writes' = 0
      ]_vars

\* C4 witness: a second cycle over the same upstream has ended; its last
\* snapshot was skipped against the Conversation the first cycle wrote.
C4_Witness ==
    /\ pc = "idle"
    /\ stableRuns = 2
    /\ lastConv.outcome = "skipped"
    /\ writes = 0
    /\ "s1" \in DOMAIN dbConversations

\* C5: for a selected snapshot with turns and an existing parent Session,
\* the write is skipped iff a Conversation with the same number of turns and
\* a last_message_at not older than the snapshot is persisted; otherwise the
\* row holds the new turns, their number and the snapshot's timestamp.
C5_SkipRule ==
    [][(AtConverge /\ Len(ConvTurns) > 0 /\ ConvSession \in DOMAIN dbSessions)
          =>
          LET s == ConvSession
              skip == /\ s \in DOMAIN dbConversations
                      /\ dbConversations[s].total_turns = Len(ConvTurns)
                      /\ dbConversations[s].last_message_at
                             >= ConvSelected.time
          IN  IF skip
              THEN dbConversations' = dbConversations /\ writes' = writes
              ELSE /\ s \in DOMAIN dbConversations'
                   /\ dbConversations'[s].turns = ConvTurns
                   /\ dbConversations'[s].total_turns = Len(ConvTurns)
                   /\ dbConversations'[s].last_message_at = ConvSelected.time
                   /\ writes' = writes + 1
      ]_vars

\* C5 witness: a Conversation with the same number of turns but an older
\* last_message_at existed, and the snapshot was upserted over it.
C5_Witness ==
    /\ lastConv.outcome = "upserted"
    /\ lastConv.existed
    /\ lastConv.sameCount

\* C6: every Conversation has its Session; a selected snapshot whose Session
\* is missing leaves the Conversations as they are and the loop goes on.
C6_NoOrphans ==
    /\ [](DOMAIN dbConversations \subseteq DOMAIN dbSessions)
    /\ [][(AtConverge /\ ConvSession \notin DOMAIN dbSessions) =>
             /\ dbConversations' = dbConversations
             /\ writes' = writes
             /\ pc' = "converge"
             /\ convIdx' = convIdx + 1
         ]_vars

\* C6 witness: a snapshot with turns was dropped for want of its Session.
C6_Witness ==
    /\ lastConv.outcome = "noparent"
    /\ lastConv.sessionId \notin DOMAIN dbConversations
    /\ lastConv.sessionId \notin DOMAIN dbSessions

InRangeEntry(e) == e.timestamp >= Horizon
IsSnapshot(e) == e.log.isContext /\ e.log.sessionId # None
HasOld(a) == \E i \in 1 .. Len(examined[a]) : ~InRangeEntry(examined[a][i])

\* C7: an entry older than the horizon is the last one examined for the
\* agent in the cycle, whether or not it is a snapshot, and once one was
\* examined no page is requested for that agent in that cycle.
C7_EarlyStop ==
    /\ [](\A a \in Agents : \A i \in 1 .. Len(examined[a]) - 1 :
              InRangeEntry(examined[a][i]))
    /\ [][\A a \in Agents :
              (HasOld(a) /\ pc # "idle") => requested'[a] = requested[a]]_vars

\* C7 witness: the first entry of page 3 of agent a1 is old and no snapshot;
\* the rest of page 3 was not examined, page 4 was not requested, and the
\* scan of the next agent has run.
C7_Witness ==
    /\ pc = "converge"
    /\ agent = "a2"
    /\ sessionContexts.order = <<"s2">>
    /\ requested["a1"] = <<1, 2, 3>>
    /\ Len(upLogs["a1"]) >= 3 * limit
    /\ Len(examined["a1"]) = 2 * limit + 1
    /\ ~InRangeEntry(examined["a1"][2 * limit + 1])
    /\ ~examined["a1"][2 * limit + 1].log.isContext

NonIncreasing(logs) ==
    \A i \in 1 .. Len(logs) - 1 : logs[i].timestamp >= logs[i + 1].timestamp

\* C8: when the fetch for an agent has stopped and the agent's upstream log
\* list is in non-increasing timestamp order, every snapshot at or after the
\* horizon that has a session id was handed to the selector.
C8_EarlyStopLosesNothing ==
    (pc \in {"converge", "count"} /\ NonIncreasing(upLogs[agent])) =>
        \A i \in 1 .. Len(upLogs[agent]) :
            (InRangeEntry(upLogs[agent][i]) /\ IsSnapshot(upLogs[agent][i]))
                => upLogs[agent][i] \in offered[agent]

\* C8 witness: the fetch stopped early on an ordered list, on the second
\* page, with snapshots handed over and old entries left unexamined.
C8_Witness ==
    /\ pc = "converge"
    /\ agent = "a1"
    /\ stopFetchingForAgent
    /\ NonIncreasing(upLogs["a1"])
    /\ offered["a1"] # {}
    /\ page = 2
    /\ Len(examined["a1"]) < Len(upLogs["a1"])

\* C9: nothing older than the horizon is stored: no Session row, no
\* Conversation row, no selector entry; a snapshot at the horizon is
\* examined as in range and handed to the selector.
C9_Horizon ==
    /\ \A s \in DOMAIN dbSessions : dbSessions[s].started_at >= Horizon
    /\ \A s \in DOMAIN dbConversations :
           dbConversations[s].last_message_at >= Horizon
    /\ \A s \in DOMAIN sessionContexts.at :
           sessionContexts.at[s].time >= Horizon
    /\ \A a \in Agents : \A i \in 1 .. Len(examined[a]) :
           (examined[a][i].timestamp = Horizon /\ IsSnapshot(examined[a][i]))
               => examined[a][i] \in offered[a]

\* C9 witness: a Session that started at the horizon and a Conversation
\* whose snapshot is from the horizon are persisted.
C9_Witness ==
    /\ "s1" \in DOMAIN dbSessions
    /\ dbSessions["s1"].started_at = Horizon
    /\ "s1" \in DOMAIN dbConversations
    /\ dbConversations["s1"].last_message_at = Horizon

\* C10: a page after the first is requested only when the page before it
\* came back with exactly limit entries, hasMore true and no old entry, and
\* the pages are requested in the order 1, 2, 3, ...
C10_NaturalStop ==
    /\ [](\A a \in Agents : \A k \in 1 .. Len(requested[a]) :
              requested[a][k] = k)
    /\ [][\A a \in Agents :
              (Len(requested[a]) >= 1 /\
               Len(requested'[a]) = Len(requested[a]) + 1) =>
                  /\ Len(response.data) = limit
                  /\ response.hasMore
                  /\ \A i \in 1 .. Len(response.data) :
                         InRangeEntry(response.data[i])]_vars

\* C10 witness: page 2 came back short and the fetch stopped there.
C10_Witness ==
    /\ pc = "converge"
    /\ agent = "a1"
    /\ ~stopFetchingForAgent
    /\ requested["a1"] = <<1, 2>>
    /\ Len(response.data) >= 1
    /\ Len(response.data) < limit

\* The retryable errors of the claims: status 429, a 5xx status, or no
\* HTTP response at all.
IsTransient(error) ==
    \/ ~error.response
    \/ error.status = 429
    \/ error.status >= 500 /\ error.status < 600

IsClientError(error) ==
    error.response /\ error.status \in 400 .. 499 /\ error.status # 429

\* C11: the operation is invoked at most maxRetries times; a success is
\* returned at once, every earlier attempt having failed; when every attempt
\* fails with a retryable error the last error is thrown after exactly
\* maxRetries invocations; there is one wait before each retry and none
\* after the last attempt.
C11_BoundedRetry ==
    /\ retry.calls <= retry.maxRetries
    /\ retry.at = "call" => Len(retry.waits) = retry.calls
    /\ retry.at = "returned" =>
           /\ retry.result = retry.calls
           /\ Len(retry.errors) = retry.calls - 1
           /\ Len(retry.waits) = retry.calls - 1
    /\ (/\ retry.at = "thrown"
        /\ retry.maxRetries > 0
        /\ \A i \in 1 .. Len(retry.errors) : ~IsClientError(retry.errors[i]))
       => /\ retry.calls = retry.maxRetries
          /\ Len(retry.errors) = retry.maxRetries
          /\ retry.thrown = retry.errors[retry.maxRetries]
          /\ Len(retry.waits) = retry.maxRetries - 1

\* C11 witness: with three attempts allowed all three failed with transient
\* errors, two waits were slept and the third error was thrown.
C11_Witness ==
    /\ retry.at = "thrown"
    /\ retry.maxRetries = 3
    /\ retry.calls = 3
    /\ Len(retry.waits) = 2
    /\ \A i \in 1 .. 3 : IsTransient(retry.errors[i])
    /\ retry.thrown = retry.errors[3]

\* C12: a 4xx error other than 429 ends the call in the attempt in which it
\* occurs, whatever the attempt number: it is thrown, nothing is invoked and
\* no wait is slept after it; a 429, a 5xx or an error without response on an
\* attempt before the last is followed by a wait.
C12_NonRetryableClientErrors ==
    \A i \in 1 .. Len(retry.errors) :
        /\ IsClientError(retry.errors[i]) =>
               /\ retry.at = "thrown"
               /\ retry.thrown = retry.errors[i]
               /\ retry.calls = i
               /\ Len(retry.waits) = i - 1
        /\ (IsTransient(retry.errors[i]) /\ i < retry.maxRetries) =>
               Len(retry.waits) >= i

\* C12 witness: a 429 on the first attempt was retried and a 404 on the
\* second attempt ended the call although a third attempt was allowed.
C12_Witness ==
    /\ retry.maxRetries = 3
    /\ Len(retry.errors) = 2
    /\ retry.errors[1] = HttpError(429)
    /\ retry.errors[2] = HttpError(404)
    /\ retry.at = "thrown"
    /\ retry.calls = 2

\* C13: a transient failure of an upstream call (429, 5xx, no response)
\* reaches the cycle as an error only after the call was made more than
\* once, as it would be were the call run through the retry wrapper.
C13_UpstreamCallsRetried ==
    (fault.error = "upstream" /\ IsTransient(fault.status))
        => fault.failures > 1

\* C14: when a cycle is over in which a request for one agent failed, the
\* sessions of every other listed agent were stored and its logs were
\* requested in that cycle.
C14_AgentIsolation ==
    (pc = "idle" /\ fault.error = "upstream" /\ fault.agent # None) =>
        \A a \in Listed \ {fault.agent} :
            /\ requested[a] # <<>>
            /\ DOMAIN upSessions[a] \subseteq DOMAIN dbSessions

EmptyStore == [sessions |-> <<>>, conversations |-> <<>>]

\* C19: after a cycle that ran to its end, the first process termination
\* having happened in some earlier cycle or not at all, the stored Sessions
\* and Conversations are what one cycle that is not interrupted produces.
\* (The store from which the interrupted cycle started is empty or is what
\* whole cycles left, and a whole cycle takes both to RunCycleOn(EmptyStore).)
C19_CrashRecovery ==
    (pc = "idle" /\ stableRuns >= 1 /\ fault.crashes <= 1) =>
        LET whole == RunCycleOn(EmptyStore)
        IN  /\ dbSessions = whole.sessions
            /\ dbConversations = whole.conversations

\* C15: when a step of the convergence loop throws for one session, the
\* error is caught and counted and the loop is at the next session of the
\* same agent, with the selection and the cycle's error state untouched; the
\* loop is left only after its last session.  When syncLogsForSession
\* rejects in SyncJob.run, the failure is counted and the run is at the next
\* session of the same agent, or past the agent's last session, and has not
\* failed.
C15_SessionIsolation ==
    [][/\ (lastConv'.outcome = "error" /\ lastConv' # lastConv) =>
              /\ fault'.caught = fault.caught + 1
              /\ fault'.error = fault.error
              /\ pc' = "converge"
              /\ convIdx' = convIdx + 1
              /\ agentIdx' = agentIdx
              /\ sessionContexts' = sessionContexts
       /\ (pc \in {"converge", "count"} /\ pc' \notin {"converge", "count"})
              => convIdx > Len(sessionContexts.order)
       /\ \A c \in DOMAIN runs :
              (/\ runs[c].at = "logs"
               /\ runs'[c] # runs[c]
               /\ job'.stats.logsFailed = job.stats.logsFailed + 1) =>
                  IF runs[c].sessIdx <
                         Len(JobSessions[JobAgents[runs[c].agentIdx]])
                  THEN /\ runs'[c].at = "logs"
                       /\ runs'[c].sessIdx = runs[c].sessIdx + 1
                       /\ runs'[c].agentIdx = runs[c].agentIdx
                  ELSE /\ runs'[c].result # "failure"
                       /\ runs'[c].at \in {"sessions", "done"}
      ]_vars

\* C15 witness: in the loop of agent a1 the step for session s1 threw,
\* nothing was stored for s1, and the conversation of s2 was upserted.
C15_Witness ==
    /\ pc = "count"
    /\ agent = "a1"
    /\ fault.caught = 1
    /\ fault.error = "none"
    /\ "s1" \notin DOMAIN dbConversations
    /\ lastConv.sessionId = "s2"
    /\ lastConv.outcome = "upserted"

\* C16: at most one run body executes at any time; a call of run() made
\* while a body is executing ends at once with the skipped result, has
\* awaited no sync step, and leaves isRunning, the stats and every other
\* call as they were.
C16_ReentrancyGuard ==
    [][/\ Cardinality(Bodies') <= 1
       /\ \A c \in DOMAIN runs :
              (runs[c].at = "new" /\ runs'[c].at # "new" /\ Bodies # {}) =>
                  /\ runs'[c].at = "done"
                  /\ runs'[c].result = "skipped"
                  /\ runs'[c].steps = 0
                  /\ job' = job
                  /\ \A b \in DOMAIN runs \ {c} : runs'[b] = runs[b]
      ]_vars

\* C16 witness: while a run is in its session loop with a session already
\* synced, another call was refused, and the stats were set up only once.
C16_Witness ==
    \E b, c \in DOMAIN runs :
        /\ runs[b].at = "logs"
        /\ runs[c].result = "skipped"
        /\ job.isRunning
        /\ job.stats.logsSynced >= 1
        /\ job.resets = 1

\* C17: in the variant that schedules with a recursive setTimeout, at most
\* one cycle is in progress at any time, whenever the timer fires.
C17_NoOverlapSetTimeout ==
    loop.variant = "setTimeout" => Len(loop.cycles) <= 1

\* C17 witness: the third cycle of the setTimeout variant is in progress
\* after a cycle that failed, and no timeout is pending.
C17_Witness ==
    /\ loop.variant = "setTimeout"
    /\ loop.started = 3
    /\ Len(loop.cycles) = 1
    /\ ~loop.timer
    /\ \E i \in 1 .. Len(loop.log) : loop.log[i].outcome = "failed"

\* C18: in the variant that schedules with setInterval, at most one cycle
\* is in progress at any time, whenever the interval fires.
C18_NoOverlapSetInterval ==
    loop.variant = "setInterval" => Len(loop.cycles) <= 1

\* A content that is an injected knowledge-base block and nothing else: the
\* marker first, one opening fence with json, one closing fence, and at most
\* whitespace after it.
IsKbOnly(content) ==
    LET fences == {i \in 1 .. Len(content) : content[i] = "F"}
    IN  /\ content # <<>>
        /\ content[1] = "MARK"
        /\ Cardinality(fences) = 2
        /\ content[Min(fences) + 1] = "J"
        /\ \A i \in Max(fences) + 1 .. Len(content) :
               content[i] \in Whitespace

\* C20: the step of the assembler at a user message appends one turn, with
\* the sanitized text, iff the sanitized text is not empty after trimming,
\* and otherwise leaves the turns as they are; a content that is only an
\* injected block is sanitized to the empty text and appends no turn; the
\* step at another message appends nothing.
C20_TurnEmission ==
    [][(pc = "assembler" /\ asm.i <= Len(messages)) =>
          LET content == messages[asm.i].content
              clean == cleanUserMessage(content)
              n == Len(asm.turns)
          IN  IF messages[asm.i].role = "user"
              THEN /\ IF Trim(clean) # <<>>
                      THEN /\ Len(asm'.turns) = n + 1
                           /\ SubSeq(asm'.turns, 1, n) = asm.turns
                           /\ asm'.turns[n + 1].user_message = clean
                      ELSE asm'.turns = asm.turns
                   /\ IsKbOnly(content) =>
                          clean = <<>> /\ asm'.turns = asm.turns
              ELSE asm'.turns = asm.turns
      ]_vars

\* C20 witness: a user message that is only an injected block, with text
\* before the fence and a newline after it, gave no turn, and the plain
\* question after it gave the only turn.
C20_Witness ==
    /\ pc = "assembler"
    /\ Len(messages) = 2
    /\ asm.i = 3
    /\ messages[1].role = "user"
    /\ IsKbOnly(messages[1].content)
    /\ Len(messages[1].content) > 6
    /\ messages[2] = [role |-> "user", content |-> <<"Q">>]
    /\ Len(asm.turns) = 1
    /\ asm.turns[1].user_message = <<"Q">>

\* The message after position i is an assistant message.
NextIsAssistant(i) ==
    i + 1 <= Len(messages) /\ messages[i + 1].role = "assistant"

\* C21: the step at a user message builds one turn; its assistant_message
\* is the content of the message right after it when that message is an
\* assistant message, which is then consumed, and null otherwise; the step
\* at an assistant message that was not consumed adds nothing.  For
\* [user A, user B, assistant R] the result is {A, null}, {B, R}.
C21_TurnPairing ==
    [][(pc = "assembler" /\ asm.i <= Len(messages)) =>
          LET i == asm.i
              n == Len(asm.turns)
          IN  IF messages[i].role = "user"
              THEN /\ asm'.i = IF NextIsAssistant(i) THEN i + 2 ELSE i + 1
                   /\ Len(asm'.turns) \in {n, n + 1}
                   /\ Len(asm'.turns) = n + 1 =>
                          asm'.turns[n + 1].assistant_message =
                              IF NextIsAssistant(i)
                              THEN messages[i + 1].content ELSE Null
                   /\ (messages = <<[role |-> "user", content |-> <<"Q">>],
                                    [role |-> "user",
                                     content |-> <<"Q", "SP", "Q">>],
                                    [role |-> "assistant",
                                     content |-> <<"Q">>]>> /\ i = 2) =>
                          asm'.turns =
                              <<[turn_id |-> 1, user_message |-> <<"Q">>,
                                 assistant_message |-> Null],
                                [turn_id |-> 2,
                                 user_message |-> <<"Q", "SP", "Q">>,
                                 assistant_message |-> <<"Q">>]>>
              ELSE asm'.i = i + 1 /\ asm'.turns = asm.turns
      ]_vars

\* C21 witness: [user A, user B, assistant R] was assembled into two turns,
\* the first without a reply and the second with R.
C21_Witness ==
    /\ pc = "assembler"
    /\ Len(messages) = 3
    /\ messages[1].role = "user" /\ messages[2].role = "user"
    /\ messages[3].role = "assistant"
    /\ messages[1].content # messages[2].content
    /\ asm.i = 4
    /\ Len(asm.turns) = 2
    /\ asm.turns[1].assistant_message = Null
    /\ asm.turns[2].assistant_message = messages[3].content

\* ----------------------------------------------------------------------------
\* C26  Sanitizer: for a user message made of optional leading text, the
\*      marker, block text, a fenced json block and a trailing question,
\*      cleanUserMessage returns the text with the span from the marker
\*      through the closing fence removed, trimmed; the message "MARK ...
\*      fenced block ... question" yields exactly the question; a message
\*      without the marker is returned unchanged.
\*      The message without the span from the first marker through the fence
\*      that closes the first fenced json block after it:
SpanRemoved(msg) ==
    LET i == Min({n \in 1 .. Len(msg) : msg[n] = "MARK"})
        j == Min({n \in i + 1 .. Len(msg) - 1 :
                     msg[n] = "F" /\ msg[n + 1] = "J"})
        k == Min({n \in j + 2 .. Len(msg) : msg[n] = "F"})
    IN  SubSeq(msg, 1, i - 1) \o SubSeq(msg, k + 1, Len(msg))

C26_SanitizerExample ==
    cleanUserMessage(<<"MARK", "SP", "Q", "SP", "F", "J", "NL", "Q", "NL",
                       "F", "SP", "Q", "SP", "Q">>) = <<"Q", "SP", "Q">>

C26_SanitizerSpan ==
    (pc = "sanitizer" /\ sanitizer.done) =>
        /\ sanitizer.msg \in ShapedMessages =>
               sanitizer.out = Trim(SpanRemoved(sanitizer.msg))
        /\ ~Contains(sanitizer.msg, "MARK") => sanitizer.out = sanitizer.msg
        /\ C26_SanitizerExample

\* ----------------------------------------------------------------------------
\* C29  Inter-page delay: in the per-agent fetch loop the delay is awaited
\*      between any two consecutive page requests: the request for page k+1
\*      is issued only after the delay that follows page k has completed; no
\*      delay precedes the request for page 1 and none follows the last page.
\*      A request is a step that extends requested[agent]; the delay is
\*      pending exactly while pc = "delay".
PageRequested(k) ==
    /\ pc = "fetch"
    /\ requested' = [requested EXCEPT ![agent] = Append(@, k)]

C29_InterPageDelay ==
    [][/\ (\E a \in Agents : Len(requested'[a]) > Len(requested[a])) =>
              PageRequested(page)
       \* the loop reaches the request for page k+1 only out of the delay
       \* that was started after page k
       /\ (pc' = "fetch" /\ pc # "fetch" /\ page' > 1) =>
              pc = "delay" /\ page' = page
       /\ pc' = "delay" =>
              /\ pc = "process" /\ response.page = page /\ page' = page + 1
              /\ requested[agent][Len(requested[agent])] = page
       \* page 1 is requested straight from the start of the agent's scan
       /\ (pc' = "fetch" /\ pc # "fetch" /\ page' = 1) =>
              pc \in {"sessions", "converge"}
       \* the delay is always followed by a request, so none follows the
       \* last page: after the last page the loop is left at once
       /\ pc = "delay" => pc' = "fetch"
       /\ (pc = "process" /\ ~MorePages(response, limit)) =>
              pc' = "converge"
      ]_vars

C29_Witness ==
    /\ pc = "converge"
    /\ agent = "a1"
    /\ requested["a1"] = <<1, 2, 3>>
    /\ Len(response.data) = limit

\* ----------------------------------------------------------------------------
\* C30  Selector map ownership: the per-session selector map is created
\*      empty at the start of each agent's scan in each cycle and is used
\*      only by that scan and the upserts that follow it; the selection made
\*      for an agent is a function of that agent's pages in that cycle, and
\*      no entry made while scanning another agent or in an earlier cycle
\*      is in it.
ScanStarts == pc \in {"sessions", "converge"} /\ pc' = "fetch"

C30_MapOwnership ==
    /\ [][/\ ScanStarts => sessionContexts' = EmptyMap
          /\ sessionContexts' # sessionContexts =>
                 ScanStarts \/ pc = "process"]_vars
    /\ [](pc \in {"converge", "count"} =>
              /\ sessionContexts = FetchPages(upLogs[agent], 1, EmptyMap)
              /\ \A sid \in DOMAIN sessionContexts.at :
                     \E i \in 1 .. Len(upLogs[agent]) :
                         upLogs[agent][i].log.sessionId = sid)

\* C30 witness: in a later cycle the scan of a2 has selected s2 alone, after
\* the scan of a1 in the same cycle had selected s1 and stored it.
C30_Witness ==
    /\ pc = "converge"
    /\ agent = "a2"
    /\ stableRuns >= 1
    /\ sessionContexts.order = <<"s2">>
    /\ offered["a1"] # {}
    /\ "s1" \in DOMAIN dbConversations

\* ----------------------------------------------------------------------------
\* C25  Parser round trip: for a log line ending in a well-formed literal
\*      array whose contents hold apostrophes that no terminator pattern
\*      follows and backslash-escaped quotes, the parser yields exactly one
\*      message per user or assistant entry, in array order, with the role
\*      of the entry and the original text as content; an escaped quote
\*      never ends a content and never splits a message.
RECURSIVE EntryMessages(_)
EntryMessages(entries) ==
    IF entries = <<>> THEN <<>>
    ELSE LET e == Head(entries)
         IN  (IF e.role = "system" THEN <<>>
              ELSE <<[role |-> e.role, content |-> e.content]>>)
                 \o EntryMessages(Tail(entries))

C25_ParserRoundTrip ==
    /\ []((pc = "parser" /\ parser.at = "done" /\ parser.wellFormed) =>
              parser.messages = EntryMessages(parser.entries))
    /\ [][(pc = "parser" /\ parser.at = "scan" /\ parser.escaped) =>
              /\ parser'.contentEnd = parser.contentEnd + 1
              /\ parser'.messages = parser.messages]_vars

\* C25 witness: two entries, an apostrophe in the user content and escaped
\* quotes in the assistant content, have come out as two messages.
C25_Witness ==
    /\ pc = "parser"
    /\ parser.at = "done"
    /\ parser.wellFormed
    /\ Len(parser.entries) = 2
    /\ parser.messages =
           <<[role |-> "user", content |-> <<"I", SQ, "m">>],
             [role |-> "assistant",
              content |-> <<DQ, "a", DQ, ",", " ">>]>>

\* ----------------------------------------------------------------------------
\* C27  Content-end rule: while a content is scanned, an unescaped
\*      occurrence of the active quote character ends the content if and
\*      only if the characters after it match an accepted terminator
\*      pattern; any other unescaped quote is kept as a character of the
\*      content and the scan goes on.
\*      The scan stands on an unescaped active quote:
AtQuote ==
    /\ pc = "parser"
    /\ parser.at = "scan"
    /\ ~parser.escaped
    /\ parser.arrayContent[parser.contentEnd + 1] = parser.quoteChar

\* The one or two characters after the character the scan stands on.
Lookahead ==
    SubSeq(parser.arrayContent, parser.contentEnd + 2,
           Min({parser.contentEnd + 3, Len(parser.arrayContent)}))

EndsContent ==
    /\ parser'.at = "push"
    /\ parser'.contentEnd = parser.contentEnd

KeepsQuote ==
    /\ parser'.contentEnd = parser.contentEnd + 1
    /\ parser'.contentValueStart = parser.contentValueStart
    /\ parser'.at \in {"scan", "push"}

\* C27 as stated: the accepted patterns are closing brace, comma followed by
\* space, closing brace followed by newline, comma followed by closing
\* brace.
C27_ContentEndAsStated ==
    [][AtQuote =>
           LET accepted ==
                   \/ Lookahead # <<>> /\ Lookahead[1] = "}"
                   \/ Lookahead = <<",", " ">>
                   \/ Lookahead = <<"}", NL>>
                   \/ Lookahead = <<",", "}">>
           IN  IF accepted THEN EndsContent ELSE KeepsQuote]_vars

\* C27 amended: the accepted patterns are closing brace, comma followed by
\* space, closing brace followed by newline, closing brace followed by
\* comma; a quote followed by comma and closing brace is kept.
C27_ContentEnd ==
    [][AtQuote =>
           LET accepted ==
                   \/ Lookahead # <<>> /\ Lookahead[1] = "}"
                   \/ Lookahead = <<",", " ">>
                   \/ Lookahead = <<"}", NL>>
                   \/ Lookahead = <<"}", ",">>
           IN  IF accepted THEN EndsContent ELSE KeepsQuote]_vars

\* C27 witness: the quote before comma and closing brace was kept, and the
\* content ran to the end of the array text.
C27_Witness ==
    /\ pc = "parser"
    /\ parser.at = "done"
    /\ parser.quoteChar = SQ
    /\ parser.messages =
           <<[role |-> "user", content |-> <<SQ, ",", "}">>]>>

\* ----------------------------------------------------------------------------
\* C28  Parser termination: for every input the scan loop of parseContextLog
\*      terminates; each iteration moves the cursor strictly forward (past
\*      the consumed content, or past a role marker that has no content
\*      marker), the loop ends when no further role marker is found, and a
\*      content whose closing quote is never found is taken up to the end of
\*      the array text.
NoRoleMarker ==
    /\ IndexOf(parser.arrayContent, RoleUser, parser.pos) = 0 - 1
    /\ IndexOf(parser.arrayContent, RoleAssistant, parser.pos) = 0 - 1

\* The places of the role markers at or after the cursor.
RoleMarkersAhead ==
    {p \in parser.pos .. Len(parser.arrayContent) :
        \/ IndexOf(parser.arrayContent, RoleUser, p) = p
        \/ IndexOf(parser.arrayContent, RoleAssistant, p) = p}

\* No content marker at or after the nearest role marker.
NoContentMarker ==
    LET p == Min(RoleMarkersAhead)
    IN  /\ IndexOf(parser.arrayContent, ContentSingle, p) = 0 - 1
        /\ IndexOf(parser.arrayContent, ContentDouble, p) = 0 - 1

C28_ParserTerminates ==
    /\ <>(parser.at = "done")
    /\ [](parser.at \in {"scan", "push"} =>
              /\ parser.pos < parser.contentValueStart
              /\ parser.contentValueStart <= parser.contentEnd
              /\ parser.contentEnd <= Len(parser.arrayContent))
    /\ [][/\ parser'.pos # parser.pos => parser'.pos > parser.pos
          \* an iteration ends in the push or in the skip of a role marker
          /\ parser.at = "push" =>
                 /\ parser'.at = "loop"
                 /\ parser'.pos = parser.contentEnd + 1
                 /\ Len(parser'.messages) = Len(parser.messages) + 1
          /\ (parser.at = "loop" /\ parser'.at = "loop") =>
                 /\ ~NoRoleMarker /\ NoContentMarker
                 /\ parser'.pos > Min(RoleMarkersAhead)
                 /\ parser'.messages = parser.messages
          /\ parser.at = "loop" => (parser'.at = "done" <=> NoRoleMarker)
          \* the closing quote was never found
          /\ (parser.at = "push" /\
              parser.contentEnd = Len(parser.arrayContent)) =>
                 parser'.messages[Len(parser'.messages)].content =
                     Unescape(SubSeq(parser.arrayContent,
                                     parser.contentValueStart + 1,
                                     Len(parser.arrayContent)))]_vars

\* C28 witness: a role marker without content marker was skipped, and the
\* scan has ended.
C28_Witness ==
    /\ pc = "parser"
    /\ parser.at = "done"
    /\ parser.arrayContent = RoleUser \o RoleAssistant
    /\ parser.pos = Len(RoleUser) + 10
    /\ parser.messages = <<>>

\* ----------------------------------------------------------------------------
\* C23  Bounded fan-out: in syncLogsOnly at most 10 sessions have a
\*      syncLogsForSession call in progress at any time; a batch starts only
\*      after every session of the previous batch has settled; a failing
\*      session is counted as failed and does not prevent the other sessions
\*      of its batch or of later batches from being processed; every session
\*      is started exactly once.
Running == {k \in DOMAIN fanOut.status : fanOut.status[k] = "running"}
Rejected == {k \in DOMAIN fanOut.status : fanOut.status[k] = "rejected"}
Resolved == {k \in DOMAIN fanOut.status : fanOut.status[k] = "resolved"}

C23_BoundedFanOut ==
    /\ [](pc = "fanout" =>
              /\ Cardinality(Running) <= 10
              /\ \A k \in DOMAIN fanOut.started : fanOut.started[k] <= 1
              /\ fanOut.completed = Cardinality(Resolved)
              \* nothing stops the run before the end of the list
              /\ fanOut.at # "done" => ENABLED FanNext
              /\ fanOut.at = "done" =>
                     /\ \A k \in DOMAIN fanOut.started :
                            /\ fanOut.started[k] = 1
                            /\ fanOut.status[k] \in {"resolved", "rejected"}
                     /\ fanOut.totalFailed = Cardinality(Rejected))
    /\ [][/\ fanOut'.started # fanOut.started => Running = {}
          \* a rejection leaves the other sessions of the batch alone
          /\ Rejected' # Rejected =>
                 /\ fanOut'.at = fanOut.at
                 /\ \A k \in Running :
                        fanOut'.status[k] \in {"running", "rejected"}]_vars

\* C23 witness: of eleven sessions the first one failed; the other ten,
\* the one of the second batch among them, were synced.
C23_Witness ==
    /\ pc = "fanout"
    /\ fanOut.at = "done"
    /\ fanOut.sessions = 11
    /\ fanOut.batches = 2
    /\ fanOut.status[0] = "rejected"
    /\ fanOut.status[10] = "resolved"
    /\ fanOut.completed = 10
    /\ fanOut.totalFailed = 1

Places(event) == {n \in 1 .. Len(proc.log) : proc.log[n] = event}

C24_ShutdownOrder ==
    pc = "proc" =>
        /\ proc.exited => proc.client = "closed" /\ proc.db = "closed"
        /\ proc.variant = "application" =>
               /\ Cardinality(Places("cron.stop")) <= 1
               /\ \A n \in Places("shutdown.disconnect") :
                      \E m \in Places("cron.stop") : m < n

C33_FetchTerminates ==
    \A a \in Agents :
        /\ requested[a] = [k \in 1 .. Len(requested[a]) |-> k]
        /\ Len(requested[a]) <= (Len(upLogs[a]) \div limit) + 1
        /\ (Len(requested[a]) = (Len(upLogs[a]) \div limit) + 1 /\ a = agent)
               => pc \notin {"fetch", "delay"}

\* C33 witness: six entries, none of them old, in pages of two: the fourth
\* request came back empty and ended the loop.
C33_Witness ==
    /\ pc = "converge"
    /\ agent = "a1"
    /\ Len(upLogs["a1"]) = 3 * limit
    /\ requested["a1"] = <<1, 2, 3, 4>>
    /\ Len(response.data) = 0
    /\ ~stopFetchingForAgent

\* C34  Early stop keeps the work done: when the fetch for an agent stopped
\*      early, the entries before the first old entry of the agent's list,
\*      and only they, went through the selector; what was selected from
\*      them is the map the convergence loop runs over, and the loop runs an
\*      iteration for every session in it before the agent is left.
FirstOld(logs) ==
    CHOOSE k \in 1 .. Len(logs) :
        /\ ~InRangeEntry(logs[k])
        /\ \A i \in 1 .. k - 1 : InRangeEntry(logs[i])

\* The selection made from the entries before position k, taken in order.
RECURSIVE SelectedBefore(_, _)
SelectedBefore(logs, k) ==
    IF k <= 1 THEN EmptyMap
    ELSE LET e == logs[k - 1]
             ctx == SelectedBefore(logs, k - 1)
         IN  IF IsSnapshot(e)
             THEN SelectorStep(ctx, e.log.sessionId, e.log, e.timestamp)
             ELSE ctx

C34_EarlyStopKeepsWork ==
    /\ []((pc \in {"converge", "count"} /\ stopFetchingForAgent) =>
              LET logs == upLogs[agent]
                  k == FirstOld(logs)
              IN  /\ examined[agent] = SubSeq(logs, 1, k)
                  /\ offered[agent] =
                         {logs[i] : i \in {j \in 1 .. k - 1 :
                                               IsSnapshot(logs[j])}}
                  /\ sessionContexts = SelectedBefore(logs, k))
    /\ [][/\ (AtConverge /\ stopFetchingForAgent) =>
                 /\ lastConv'.sessionId = ConvSession
                 /\ lastConv'.outcome = "empty" <=> Len(ConvTurns) = 0
          /\ (pc = "converge" /\ pc' \notin {"converge", "count"}) =>
                 convIdx > Len(sessionContexts.order)
         ]_vars

\* C34 witness: the fetch of a1 stopped at the second entry of page 2; the
\* snapshot selected from the entries before it was parsed and upserted.
C34_Witness ==
    /\ pc = "count"
    /\ agent = "a1"
    /\ stopFetchingForAgent
    /\ requested["a1"] = <<1, 2>>
    /\ Len(examined["a1"]) = 2 * limit
    /\ IsSnapshot(examined["a1"][limit + 1])
    /\ lastConv.sessionId = "s1"
    /\ lastConv.outcome = "upserted"

\* C35  Continuous loop liveness: in the variant with the recursive timeout
\*      (PostgreSQL), whenever no cycle is in progress a timeout is pending,
\*      and after the n-th cycle is over, with or without an error, cycle
\*      n + 1 is eventually started (for the cycles below MaxCycles).
C35_LoopLiveness ==
    /\ []((pc = "loop" /\ loop.variant = "setTimeout") =>
              (Len(loop.cycles) = 0 => loop.timer))
    /\ \A n \in 1 .. MaxCycles - 1 :
           (pc = "loop" /\ loop.variant = "setTimeout" /\ Len(loop.log) = n)
               ~> (loop.started > n)

\* C35 witness: two cycles failed, the first in syncAgents and the second in
\* syncConversations, and the third cycle has been started.
C35_Witness ==
    /\ pc = "loop"
    /\ loop.variant = "setTimeout"
    /\ Len(loop.log) = 2
    /\ loop.log[1] = [outcome |-> "failed", step |-> "agents"]
    /\ loop.log[2] = [outcome |-> "failed", step |-> "conversations"]
    /\ loop.started = 3

\* C36  Guard release: isRunning is set exactly while a run body executes;
\*      the step in which a run that was let in returns, with the success
\*      or the failure result, leaves isRunning false, and a run() called
\*      when no body executes is let in.
C36_GuardRelease ==
    /\ [](pc = "job" => (job.isRunning <=> Bodies # {}))
    /\ [][\A c \in DOMAIN runs :
              /\ (runs[c].at \notin {"new", "done"} /\ runs'[c].at = "done")
                     => /\ runs'[c].result \in {"success", "failure"}
                        /\ ~job'.isRunning
              /\ (runs[c].at = "new" /\ runs'[c].at # "new" /\ Bodies = {})
                     => /\ runs'[c].result # "skipped"
                        /\ runs'[c].at = "agents"
                        /\ job'.isRunning
         ]_vars

\* C36 witness: the first run returned its failure result, and the run()
\* called after it was let in and is in its session loop.
C36_Witness ==
    /\ pc = "job"
    /\ runs[1].at = "done"
    /\ runs[1].result = "failure"
    /\ runs[2].at = "logs"
    /\ job.isRunning

\* C37  Assistant attachment: when the assembler is done, the turns are, in
\*      order, those of the user messages whose sanitized text is not empty,
\*      each with the content of the message right after it when that is an
\*      assistant message and with null otherwise.  So an assistant message
\*      is in at most one turn, that of the user message right before it; a
\*      leading one, the second of two in a row and the reply to a dropped
\*      user message are in no turn.
KeptUser(u) ==
    /\ messages[u].role = "user"
    /\ Trim(cleanUserMessage(messages[u].content)) # <<>>

\* The assistant positions whose message is attached to a turn.
Attached ==
    {j \in 2 .. Len(messages) :
        messages[j].role = "assistant" /\ KeptUser(j - 1)}

RECURSIVE AttachmentsFrom(_)
AttachmentsFrom(u) ==
    IF u > Len(messages) THEN <<>>
    ELSE (IF KeptUser(u)
          THEN <<[user_message |-> cleanUserMessage(messages[u].content),
                  assistant_message |->
                      IF u + 1 \in Attached THEN messages[u + 1].content
                      ELSE Null]>>
          ELSE <<>>) \o AttachmentsFrom(u + 1)

C37_AssistantAttachment ==
    (pc = "assembler" /\ asm.i > Len(messages)) =>
        /\ [k \in 1 .. Len(asm.turns) |->
               [user_message |-> asm.turns[k].user_message,
                assistant_message |-> asm.turns[k].assistant_message]]
           = AttachmentsFrom(1)
        /\ Cardinality({k \in 1 .. Len(asm.turns) :
                            asm.turns[k].assistant_message # Null})
           = Cardinality(Attached)

\* C37 witness: [user A, user (injected block only), assistant R]: the
\* second user message was dropped and R with it; the turn of A has no
\* assistant message.
C37_Witness ==
    /\ pc = "assembler"
    /\ Len(messages) = 3
    /\ asm.i > 3
    /\ messages[1] = [role |-> "user", content |-> <<"Q">>]
    /\ messages[2].role = "user"
    /\ IsKbOnly(messages[2].content)
    /\ messages[3] = [role |-> "assistant", content |-> <<"Q", "SP", "Q">>]
    /\ Len(asm.turns) = 1
    /\ asm.turns[1].assistant_message = Null

\* C38  Content attribution: when an iteration of the scan loop goes on to
\*      read a content, the content marker it reads from lies after the
\*      role marker of the iteration and before every later role marker of
\*      the array text; so a role marker with no content marker before the
\*      next role marker gives no message.
C38_ContentAttribution ==
    [][(pc = "parser" /\ parser.at = "loop"
            /\ parser'.at \in {"scan", "push"}) =>
          LET role == Min(RoleMarkersAhead)
              contentStart == parser'.contentValueStart - Len(ContentSingle)
          IN  /\ role < contentStart
              /\ \A p \in RoleMarkersAhead : p # role => contentStart < p
      ]_vars

\* C31  Duplicate-key fallback: an upsert rejected with code 11000 is
\*      followed by an update of the same key without upsert, and when that
\*      update resolves the call returns success with created = false and
\*      updated = true; an upsert rejected with another code is thrown to
\*      the loop, which counts the item as failed; in both cases the loop
\*      goes on with the next item, and it ends with one result per item.
LastOp == svc'.ops[Len(svc'.ops)]
LastResult == svc'.results[Len(svc'.results)]
UpsertRejected(code) ==
    /\ svc.at = "loop"
    /\ Len(svc'.ops) = Len(svc.ops) + 1
    /\ LastOp.op = "findOneAndUpdate"
    /\ \/ svc'.code = code /\ svc'.at = "fallback"
       \/ Len(svc'.results) = Len(svc.results) + 1 /\ LastResult.thrown
              /\ LastResult.code = code

C31_DuplicateKeyFallback ==
    /\ [][pc = "svc" =>
            /\ UpsertRejected(DuplicateKey) =>
                   /\ svc'.at = "fallback"
                   /\ svc'.results = svc.results
                   /\ svc'.failed = svc.failed
            /\ (svc.at = "fallback" /\ svc' # svc) =>
                   /\ LastOp = [op |-> "updateOne", key |-> svc.items[svc.i],
                                upsert |-> FALSE]
                   /\ ~LastResult.thrown =>
                          /\ LastResult.success
                          /\ ~LastResult.created /\ LastResult.updated
                          /\ svc'.updated = svc.updated + 1
                          /\ svc'.failed = svc.failed
                   /\ svc'.i = svc.i + 1 /\ svc'.at = "loop"
            /\ \A code \in ErrorCodes \ {DuplicateKey} :
                   UpsertRejected(code) =>
                       /\ LastResult = Thrown(svc.items[svc.i], code)
                       /\ svc'.failed = svc.failed + 1
                       /\ svc'.created = svc.created
                       /\ svc'.updated = svc.updated
                       /\ svc'.i = svc.i + 1 /\ svc'.at = "loop"
         ]_vars
    /\ []((pc = "svc" /\ svc.at = "done") =>
              /\ Len(svc.results) = Len(svc.items)
              /\ \A n \in 1 .. Len(svc.items) :
                     svc.results[n].key = svc.items[n]
              /\ svc.created + svc.updated + svc.failed = Len(svc.items))

\* C31 witness: of three sessions the first upsert was rejected with a
\* duplicate key error and resolved by the update, the second was rejected
\* with another error and counted as failed, and the third was upserted.
C31_Witness ==
    /\ pc = "svc"
    /\ svc.at = "done"
    /\ svc.kind = "session"
    /\ Len(svc.items) = 3
    /\ svc.ops[1].op = "findOneAndUpdate"
    /\ svc.ops[2] = [op |-> "updateOne", key |-> svc.items[1],
                     upsert |-> FALSE]
    /\ ~svc.results[1].thrown /\ svc.results[1].updated
    /\ svc.results[2].thrown /\ svc.results[2].code = 50
    /\ ~svc.results[3].thrown
    /\ svc.updated = 2 /\ svc.failed = 1

\* C39  Resumable log sync: when an incremental run in which some logs of
\*      the session were stored and others failed is followed by a run
\*      without failures over the same upstream logs, then at the end of
\*      that run every upstream log of the session is stored (stated for
\*      the logs with a timestamp and a text, whose id is the same in every
\*      run).
FailedRuns == {logSync.failures[n].run : n \in 1 .. Len(logSync.failures)}
PartlyFailedRuns ==
    {logSync.failures[n].run :
        n \in {m \in 1 .. Len(logSync.failures) :
                   logSync.failures[m].upserted > 0}}
StoredLog(e) ==
    \E n \in 1 .. Len(logSync.Log) :
        logSync.Log[n].log_id = extractLogId(e, logSync.sessionId, 0, "r1")

C39_ResumableLogSync ==
    (/\ pc = "logsync"
     /\ logSync.at = "done"
     /\ logSync.run \notin FailedRuns
     /\ \E r \in PartlyFailedRuns : r < logSync.run) =>
        \A n \in 1 .. Len(logSync.upstream) :
            LET e == logSync.upstream[n]
            IN  (e.timestamp # NoTime /\ e.log # "") => StoredLog(e)

\* C40  Log accounting: when the streaming syncLogsForSession returns, the
\*      inserted, skipped and failed counts add up to the number of logs
\*      fetched for the session.
C40_LogAccounting ==
    (pc = "logstream" /\ logSync.at = "done") =>
        /\ logSync.totalFetched = Len(logSync.upstream)
        /\ logSync.inserted + logSync.skipped + logSync.failed
               = logSync.totalFetched

====
